---- MODULE Spec2Model ----
(***************************************************************************)
(* Grounding resolution of the agent server: detection dedup, snapping a   *)
(* model box to a detected element, element_id / box_2d cross-validation,  *)
(* marker boxes, crop geometry and the /plan request.                      *)
(*                                                                         *)
(* Arithmetic.  The code computes with Python floats.  The model computes  *)
(* with exact integers: a normalized coordinate c in [0,1] is the integer  *)
(* c * One, One = 2000, so that every box_2d value v (0..1000 scale)       *)
(* converts to the even number 2*v and every centre x + w/2 of a converted *)
(* box is an integer.  Areas are in units of 1/One^2.  Ratios (IoU, area   *)
(* ratio) are compared as fractions, distances by their squares.  Float    *)
(* rounding is not modelled.                                               *)
(***************************************************************************)
EXTENDS Integers, Sequences, FiniteSets, TLC

VARIABLES
    pc,            \* position of the operation under way
    raw_elements,  \* detect_elements: (conf, xyxy) pairs as the detector returns them
    dedup_in,      \* detect_elements: the list after the confidence sort (argument of _deduplicate_boxes)
    dedup_out,     \* detect_elements: the list _deduplicate_boxes returns
    elements,      \* list of OmniElement, as the caller holds it
    gemini,        \* snap_to_nearest_element: the candidate (gemini_x, gemini_y, gemini_w, gemini_h)
    snap_ret,      \* snap_to_nearest_element: the returned (x, y, w, h, matched_element_id)
    step_data,     \* _resolve_bbox: the step as the reasoning call returned it
    pre_clamp,     \* _resolve_bbox: (rx, ry, rw, rh) on reaching the clamp
    resolved,      \* _resolve_bbox: the returned (rx, ry, rw, rh)
    markers,       \* _som_plan_to_step_plan: the list of SoMMarker
    som_plan,      \* _som_plan_to_step_plan: the steps of the SoMStepPlan, each its som_targets
    som_steps,     \* _som_plan_to_step_plan: the target of each converted step
    target_rect,   \* _crop_region: the TargetRect argument
    crop_rect,     \* _crop_region: the returned CropRect
    plan_steps,    \* create_plan: result["steps"] of the reasoning call
    converted_steps, \* create_plan: the TargetRect of each converted step (x, y, w, h in 1/One^2)
    verify_ran,    \* create_plan: needs_verify of each step handled so far
    verified,      \* create_plan: (rx, ry, rw, rh) of the last step after the verification block (1/One^2)
    failure,       \* create_plan: what raised, "" while nothing has
    now,           \* time.time(), seconds
    session_cache, \* _session_cache: session id -> [elements, ts]
    next_sid,      \* the session id the next uuid4() of /start yields
    start_inflight, \* /start requests waiting in "await screenshot.read()"
    stream_log,    \* one record per /plan-stream request, in order of arrival
    coarse_target, \* _refine_with_omniparser: the target of the input plan
    refine_env,    \* _refine_with_omniparser: what raised, and the result of generate_omniparser_refine
    refined_target, \* _refine_with_omniparser: the target appended to refined_targets (x, y, w, h in 1/One^2)
    verify_env,    \* _verify_and_correct_step: whether crop detection raised, and the verdict of verify_element
    search_store,  \* search.py _search_store: goal -> stored context
    search_before, \* _search_store as it was when the last call of the search service began
    search_call,    \* the last call of the search service and what it returned
    coarse_plan,   \* _refine_with_omniparser: plan, the StepPlan it is given
    refined_targets, \* _refine_with_omniparser: refined_targets of the step under way
    refined_steps, \* _refine_with_omniparser: refined_steps
    target_i,      \* _refine_with_omniparser: position of 'for target in step.targets'
    refined_plan   \* _refine_with_omniparser: the StepPlan it returns

detVars == <<raw_elements, dedup_in, dedup_out>>
snapVars == <<gemini, snap_ret>>
resVars == <<step_data, pre_clamp, resolved>>

somVars == <<markers, som_plan, som_steps>>
cropVars == <<target_rect, crop_rect>>

planVars == <<plan_steps, converted_steps, verify_ran, verified, failure>>

sessVars == <<now, session_cache, next_sid, start_inflight, stream_log>>

refVars == <<coarse_target, refine_env, refined_target>>

searchVars == <<search_store, search_before, search_call>>

rplanVars == <<coarse_plan, target_i, refined_targets, refined_steps, refined_plan>>

vars == <<pc, detVars, elements, snapVars, resVars, somVars, cropVars, planVars, sessVars,
          refVars, verify_env, searchVars, rplanVars>>

-----------------------------------------------------------------------------
(* Units and small helpers *)

\* box_2d is on a 0-1000 scale: "xmin / 1000.0"
Box2dScale == 1000

\* 1.0 in model units
One == 2 * Box2dScale

\* Python's None (an absent element_id, an unmatched snap)
None == -1
\* None where the other values are strings (no pool holds an empty string)
NoLabel == ""

\* v / 1000.0 in model units
Box2dToNorm(v) == (v * One) \div Box2dScale

\* the float n/d in model units (n/d is a multiple of 1/One wherever this is used)
Frac(n, d) == (n * One) \div d

Min(a, b) == IF a <= b THEN a ELSE b
Max(a, b) == IF a >= b THEN a ELSE b

Front(s) == SubSeq(s, 1, Len(s) - 1)

\* a/b > c/d for a, c >= 0 and b, d > 0, without forming the cross products
RECURSIVE FracGT(_, _, _, _)
FracGT(a, b, c, d) ==
    LET qa == a \div b
        qc == c \div d
        ra == a % b
        rc == c % d
    IN  IF qa # qc THEN qa > qc
        ELSE IF ra = 0 THEN FALSE
        ELSE IF rc = 0 THEN TRUE
        ELSE FracGT(d, rc, b, ra)

\* injective sequences over S of length at most n
SeqsUpTo(S, n) ==
    UNION { { s \in [1..k -> S] : \A i, j \in 1..k : i # j => s[i] # s[j] } : k \in 0..n }

Rect(x, y, w, h) == [x |-> x, y |-> y, w |-> w, h |-> h]

-----------------------------------------------------------------------------
(* services/omniparser.py: detection and dedup *)

\* OmniElement.bbox_xywh
bbox_xywh(e) ==
    Rect(e.bbox_xyxy[1], e.bbox_xyxy[2],
         e.bbox_xyxy[3] - e.bbox_xyxy[1], e.bbox_xyxy[4] - e.bbox_xyxy[2])

\* _compute_iou(a, b) as the fraction num/den
_compute_iou(a, b) ==
    LET ix1 == Max(a[1], b[1])
        iy1 == Max(a[2], b[2])
        ix2 == Min(a[3], b[3])
        iy2 == Min(a[4], b[4])
        inter == (ix2 - ix1) * (iy2 - iy1)
        area_a == (a[3] - a[1]) * (a[4] - a[2])
        area_b == (b[3] - b[1]) * (b[4] - b[2])
        union == area_a + area_b - inter
    IN  IF ix2 <= ix1 \/ iy2 <= iy1 THEN [num |-> 0, den |-> 1]
        ELSE IF union > 0 THEN [num |-> inter, den |-> union]
        ELSE [num |-> 0, den |-> 1]

\* mutant: a box at exactly the threshold counts as a duplicate
ExceedsDedupThreshold_Inclusive(iou) == iou.num * 100 >= 85 * iou.den

\* iou > _DEDUP_IOU_THRESHOLD (0.85)
ExceedsDedupThreshold(iou) == iou.num * 100 > 85 * iou.den

\* _deduplicate_boxes(elements): elements are (conf, xyxy) pairs
RECURSIVE _deduplicate_boxes(_)
_deduplicate_boxes(elems) ==
    IF elems = <<>> THEN <<>>
    ELSE LET kept == _deduplicate_boxes(Front(elems))
             last == elems[Len(elems)]
             is_dup == \E i \in DOMAIN kept :
                          ExceedsDedupThreshold(_compute_iou(last[2], kept[i][2]))
         IN  IF is_dup THEN kept ELSE Append(kept, last)

\* raw_elements.sort(key=lambda x: x[0], reverse=True): stable, highest confidence first
RECURSIVE SortByConfidence(_)
SortByConfidence(s) ==
    IF s = <<>> THEN <<>>
    ELSE LET rest == SortByConfidence(Front(s))
             x == s[Len(s)]
             k == Cardinality({ i \in DOMAIN rest : rest[i][1] >= x[1] })
         IN  SubSeq(rest, 1, k) \o <<x>> \o SubSeq(rest, k + 1, Len(rest))

\* mutant: ids counted from 1
MakeElements_OneBased(kept) ==
    [ i \in DOMAIN kept |-> [id |-> i, conf |-> kept[i][1], bbox_xyxy |-> kept[i][2]] ]

\* the enumerate loop of detect_elements: OmniElement(id=i, content=..conf.., bbox_xyxy=bbox)
MakeElements(kept) ==
    [ i \in DOMAIN kept |-> [id |-> i - 1, conf |-> kept[i][1], bbox_xyxy |-> kept[i][2]] ]

\* detect_elements, from the detector's raw boxes on
detect_elements(raw) == MakeElements(_deduplicate_boxes(SortByConfidence(raw)))

\* (e.bbox_xyxy[1], e.bbox_xyxy[0]) <= of another element, as Python orders tuples
PositionLE(a, b) ==
    \/ a.bbox_xyxy[2] < b.bbox_xyxy[2]
    \/ a.bbox_xyxy[2] = b.bbox_xyxy[2] /\ a.bbox_xyxy[1] <= b.bbox_xyxy[1]

\* elements.sort(key=lambda e: (e.bbox_xyxy[1], e.bbox_xyxy[0])): stable
RECURSIVE SortByPosition(_)
SortByPosition(s) ==
    IF s = <<>> THEN <<>>
    ELSE LET rest == SortByPosition(Front(s))
             x == s[Len(s)]
             k == Cardinality({ i \in DOMAIN rest : PositionLE(rest[i], x) })
         IN  SubSeq(rest, 1, k) \o <<x>> \o SubSeq(rest, k + 1, Len(rest))

\* for i, e in enumerate(elements): e.id = i
Renumber(s) == [ i \in DOMAIN s |-> [s[i] EXCEPT !.id = i - 1] ]

\* the caller's sort and renumbering after detect_elements
SortAndRenumber(s) == Renumber(SortByPosition(s))

-----------------------------------------------------------------------------
(* services/omniparser.py: snap_to_nearest_element *)

\* gemini_area = g_area if g_area > 0 else 0.0001
GeminiArea(g_area) == IF g_area > 0 THEN g_area ELSE (One * One) \div 10000

\* mutant: no size filter
SizeEligible_NoFilter(e_area, gemini_area) == TRUE

\* not (e_area / gemini_area < min_area_ratio), min_area_ratio = 0.15
SizeEligible(e_area, gemini_area) == e_area * 100 >= 15 * gemini_area

\* (ex <= gcx <= ex + ew) and (ey <= gcy <= ey + eh), gcx = gx + gw/2
ContainsCenter(e, g) ==
    /\ 2 * e.x <= 2 * g.x + g.w
    /\ 2 * g.x + g.w <= 2 * (e.x + e.w)
    /\ 2 * e.y <= 2 * g.y + g.h
    /\ 2 * g.y + g.h <= 2 * (e.y + e.h)

\* Pass 1: the indices appended to containment_matches
ContainmentMatches(g, elems) ==
    { i \in DOMAIN elems :
        LET e == bbox_xywh(elems[i])
        IN  /\ ContainsCenter(e, g)
            /\ SizeEligible(e.w * e.h, GeminiArea(g.w * g.h)) }

\* mutant: the first containing element instead of the smallest
ContainmentBest_First(matches, elems) ==
    CHOOSE i \in matches : \A j \in matches : i <= j

\* containment_matches.sort(key=area)[0]: smallest area, earliest on a tie
ContainmentBest(matches, elems) ==
    CHOOSE i \in matches :
        \A j \in matches :
            LET ai == bbox_xywh(elems[i]).w * bbox_xywh(elems[i]).h
                aj == bbox_xywh(elems[j]).w * bbox_xywh(elems[j]).h
            IN  ai < aj \/ (ai = aj /\ i <= j)

\* Pass 2 loop over the first k elements: (best_iou as num/den, index of best_iou_elem or 0)
RECURSIVE IoUPass(_, _, _)
IoUPass(g, elems, k) ==
    IF k = 0 THEN [num |-> 0, den |-> 1, elem |-> 0]
    ELSE LET prev == IoUPass(g, elems, k - 1)
             e == bbox_xywh(elems[k])
             g_area == g.w * g.h
             e_area == e.w * e.h
             ix1 == Max(g.x, e.x)
             iy1 == Max(g.y, e.y)
             ix2 == Min(g.x + g.w, e.x + e.w)
             iy2 == Min(g.y + g.h, e.y + e.h)
             inter_area == (ix2 - ix1) * (iy2 - iy1)
             union_area == g_area + e_area - inter_area
             iou == IF union_area > 0 THEN [num |-> inter_area, den |-> union_area]
                    ELSE [num |-> 0, den |-> 1]
         IN  IF ~SizeEligible(e_area, GeminiArea(g_area)) THEN prev
             ELSE IF ix2 > ix1 /\ iy2 > iy1
                     /\ FracGT(iou.num, iou.den, prev.num, prev.den)
                  THEN [num |-> iou.num, den |-> iou.den, elem |-> k]
             ELSE prev

\* mutant: an IoU of exactly 0.05 accepted
IoUAccepted_Inclusive(best) == best.elem # 0 /\ best.num * 100 >= 5 * best.den

\* best_iou > 0.05
IoUAccepted(best) == best.elem # 0 /\ best.num * 100 > 5 * best.den

\* squared distance of the centres, times 4 (centres are kept doubled)
CenterDist2x4(a, b) ==
    ((2 * a.x + a.w) - (2 * b.x + b.w)) * ((2 * a.x + a.w) - (2 * b.x + b.w))
    + ((2 * a.y + a.h) - (2 * b.y + b.h)) * ((2 * a.y + a.h) - (2 * b.y + b.h))

\* d <= limit for a distance given as 4*d^2 and a limit n/100
WithinDist(d2x4, n) == d2x4 <= (2 * Frac(n, 100)) * (2 * Frac(n, 100))

\* Pass 3 loop over the first k elements: (best_dist as 4*d^2, index of best_elem or 0 = inf)
RECURSIVE DistPass(_, _, _)
DistPass(g, elems, k) ==
    IF k = 0 THEN [d |-> 0, elem |-> 0]
    ELSE LET prev == DistPass(g, elems, k - 1)
             e == bbox_xywh(elems[k])
             dist == CenterDist2x4(g, e)
         IN  IF ~SizeEligible(e.w * e.h, GeminiArea(g.w * g.h)) THEN prev
             ELSE IF prev.elem = 0 \/ dist < prev.d THEN [d |-> dist, elem |-> k]
             ELSE prev

\* mutant: a distance of exactly max_distance refused
DistAccepted_Strict(best) ==
    best.elem # 0 /\ best.d < (2 * Frac(6, 100)) * (2 * Frac(6, 100))

\* mutant: the distance pass without its max_distance limit
DistAccepted_NoLimit(best) == best.elem # 0

\* best_elem is not None and best_dist <= max_distance (0.06)
DistAccepted(best) == best.elem # 0 /\ WithinDist(best.d, 6)

\* mutant: the element's rectangle is returned without its id
SnapTo_NoId(elem) ==
    LET e == bbox_xywh(elem)
    IN  [x |-> e.x, y |-> e.y, w |-> e.w, h |-> e.h, id |-> None]

SnapTo(elem) ==
    LET e == bbox_xywh(elem)
    IN  [x |-> e.x, y |-> e.y, w |-> e.w, h |-> e.h, id |-> elem.id]

\* snap_to_nearest_element(gemini_x, gemini_y, gemini_w, gemini_h, elements), max_distance = 0.06
snap_to_nearest_element(g, elems) ==
    LET unmatched == [x |-> g.x, y |-> g.y, w |-> g.w, h |-> g.h, id |-> None]
        matches == ContainmentMatches(g, elems)
        best_iou == IoUPass(g, elems, Len(elems))
        best_dist == DistPass(g, elems, Len(elems))
    IN  IF elems = <<>> THEN unmatched
        ELSE IF matches # {} THEN SnapTo(elems[ContainmentBest(matches, elems)])
        ELSE IF IoUAccepted(best_iou) THEN SnapTo(elems[best_iou.elem])
        ELSE IF DistAccepted(best_dist) THEN SnapTo(elems[best_dist.elem])
        ELSE unmatched

-----------------------------------------------------------------------------
(* Inputs *)

\* longest raw detection list
MaxRaw == 3

\* most elements of a detection pass used for resolution
MaxElems == 3

\* detector output for the dedup runs: (confidence in percent, xyxy)
DetectPool ==
    { <<80, <<0, 0, 200, 200>>>>,        \* A
      <<60, <<0, 0, 200, 180>>>>,        \* IoU 0.90 with A
      <<70, <<0, 0, 200, 170>>>>,        \* IoU 0.85 with A
      <<60, <<0, 0, 200, 100>>>>,        \* IoU 0.50 with A
      <<90, <<0, 20, 200, 200>>>>,       \* IoU 0.90 with A, 0.80 with the second
      <<40, <<0, 0, 200, 200>>>>,        \* A again, lower confidence
      <<50, <<1000, 1000, 1200, 1100>>>> }

\* detector output for the resolution runs
ElemPool ==
    { <<90, <<200, 200, 300, 260>>>>,    \* E0 = (0.10, 0.10, 0.05, 0.03)
      <<80, <<100, 100, 600, 500>>>>,    \* a panel around E0
      <<70, <<250, 226, 262, 238>>>>,    \* a tiny icon inside E0
      <<60, <<180, 190, 280, 250>>>>,    \* as large as E0, overlapping it
      <<50, <<700, 200, 800, 260>>>>,
      <<40, <<1600, 1600, 1800, 1700>>>> }

\* the element lists a caller holds: detect_elements, then sorted by position and renumbered
ElementLists ==
    { SortAndRenumber(detect_elements(raw)) : raw \in SeqsUpTo(ElemPool, MaxElems) }

\* box_2d values [ymin, xmin, ymax, xmax] a model may return
Box2dPool ==
    { <<105, 110, 130, 150>>,     \* (0.11, 0.105, 0.04, 0.025): centre inside E0
      <<115, 125, 115, 125>>,     \* zero area
      <<115, 127, 118, 129>>,     \* positive area below 0.02^2
      <<110, 130, 140, 180>>,     \* overlaps E0, centre outside it
      <<125, 145, 155, 195>>,     \* touches E0's corner
      <<100, 405, 130, 435>>,     \* centre 0.045 from the fifth element's
      <<100, 420, 130, 450>>,     \* centre 0.06 from it
      <<100, 421, 130, 451>>,     \* centre 0.061 from it
      <<500, 500, 550, 550>>,     \* near nothing
      <<150, 150, 175, 110>>,     \* xmax < xmin
      <<500, 990, 550, 1040>>,    \* past the right edge
      <<100, 185, 130, 225>>,     \* centre 0.08 right of E0's
      <<100, 155, 130, 195>>,     \* centre 0.05 right of E0's
      <<100, 140, 130, 300>>,     \* IoU 0.05 with E0, centre 0.095 from E0's
      <<210, 260, 240, 290>>,     \* inside the panel, centre 0.125 from the panel's
      <<50, 50, 250, 300>> }      \* exactly the panel's bbox

\* lines 94-98 of _resolve_bbox: box_2d -> (raw_x, raw_y, raw_w, raw_h)
Box2dRect(b) ==
    Rect(Box2dToNorm(b[2]), Box2dToNorm(b[1]),
         Box2dToNorm(b[4] - b[2]), Box2dToNorm(b[3] - b[1]))

CandPool == { Box2dRect(b) : b \in Box2dPool }

NoRect == Rect(0, 0, 0, 0)
NoSnap == [x |-> 0, y |-> 0, w |-> 0, h |-> 0, id |-> None]
NoCrop == [cx |-> 0, cy |-> 0, cw |-> 0, ch |-> 0]

-----------------------------------------------------------------------------------------------------------------------------------------------------
(* Values of the variables an operation does not use *)

NoStep == [element_id |-> None, box_2d |-> <<>>, confidence |-> None]

DetIdle == raw_elements = <<>> /\ dedup_in = <<>> /\ dedup_out = <<>>
SnapIdle == gemini = NoRect /\ snap_ret = NoSnap
ResIdle == step_data = NoStep /\ pre_clamp = NoRect /\ resolved = NoRect
SomIdle == markers = <<>> /\ som_plan = <<>> /\ som_steps = <<>>
CropIdle == target_rect = NoRect /\ crop_rect = NoCrop
PlanIdle ==
    /\ plan_steps = <<>>
    /\ converted_steps = <<>>
    /\ verify_ran = <<>>
    /\ verified = NoRect
    /\ failure = ""
NoTarget == [x |-> 0, y |-> 0, w |-> 0, h |-> 0, confidence |-> None, label |-> NoLabel]
NoRefineResult == [raised |-> FALSE, element_ids |-> <<>>, confidence |-> None, label |-> NoLabel]
RefIdle ==
    /\ coarse_target = NoTarget
    /\ refine_env = [raised |-> "", result |-> NoRefineResult]
    /\ refined_target = NoTarget
NoVerdict ==
    [raised |-> FALSE, has_correct |-> FALSE, correct |-> FALSE,
     correct_element_id |-> None, box_2d |-> <<>>]
VerIdle == verify_env = [detect_raised |-> FALSE, verdict |-> NoVerdict]
EmptyStore == [g \in {} |-> ""]
NoCall == [op |-> "", given |-> FALSE, goal |-> "", returned |-> ""]
SearchIdle == search_store = EmptyStore /\ search_before = EmptyStore /\ search_call = NoCall
NoPlan == [version |-> "", goal |-> "", app_context |-> "", image_size |-> <<0, 0>>, steps |-> <<>>]
RPlanIdle ==
    /\ coarse_plan = NoPlan
    /\ target_i = 0
    /\ refined_targets = <<>>
    /\ refined_steps = <<>>
    /\ refined_plan = NoPlan
SessIdle ==
    /\ now = 0
    /\ session_cache = <<>>
    /\ next_sid = 1
    /\ start_inflight = 0
    /\ stream_log = <<>>

-----------------------------------------------------------------------------
(* detect_elements followed by the caller's sort *)

InitDetect ==
    /\ pc = "detect"
    /\ raw_elements \in SeqsUpTo(DetectPool, MaxRaw)
    /\ dedup_in = <<>>
    /\ dedup_out = <<>>
    /\ elements = <<>>
    /\ SnapIdle
    /\ ResIdle
    /\ SomIdle
    /\ CropIdle
    /\ PlanIdle
    /\ SessIdle
    /\ RefIdle
    /\ VerIdle
    /\ SearchIdle
    /\ RPlanIdle

\* detect_elements, lines 197-233
DetectElements ==
    /\ pc = "detect"
    /\ dedup_in' = SortByConfidence(raw_elements)
    /\ dedup_out' = _deduplicate_boxes(dedup_in')
    /\ elements' = MakeElements(dedup_out')
    /\ pc' = "detected"
    /\ UNCHANGED <<raw_elements, snapVars, resVars, somVars, cropVars, planVars, sessVars, refVars, verify_env, searchVars, rplanVars>>

\* the caller: elements.sort(...); e.id = i
CallerSortRenumber ==
    /\ pc = "detected"
    /\ elements' = SortAndRenumber(elements)
    /\ pc' = "sorted"
    /\ UNCHANGED <<detVars, snapVars, resVars, somVars, cropVars, planVars, sessVars, refVars, verify_env, searchVars, rplanVars>>

NextDetect == DetectElements \/ CallerSortRenumber

SpecDetect == InitDetect /\ [][NextDetect]_vars

-----------------------------------------------------------------------------
(* snap_to_nearest_element on its own *)

InitSnap ==
    /\ pc = "snap"
    /\ DetIdle
    /\ elements \in ElementLists
    /\ gemini \in CandPool
    /\ snap_ret = NoSnap
    /\ ResIdle
    /\ SomIdle
    /\ CropIdle
    /\ PlanIdle
    /\ SessIdle
    /\ RefIdle
    /\ VerIdle
    /\ SearchIdle
    /\ RPlanIdle

Snap ==
    /\ pc = "snap"
    /\ snap_ret' = snap_to_nearest_element(gemini, elements)
    /\ pc' = "snapped"
    /\ UNCHANGED <<detVars, elements, gemini, resVars, somVars, cropVars, planVars, sessVars, refVars, verify_env, searchVars, rplanVars>>

NextSnap == Snap

SpecSnap == InitSnap /\ [][NextSnap]_vars

-----------------------------------------------------------------------------
(* routers/plan.py: _resolve_bbox *)

\* if box_2d and len(box_2d) == 4
HasBox(step) == Len(step.box_2d) = 4

\* elem_map = {e.id: e for e in elements}; element_id in elem_map
InElemMap(id, elems) == \E i \in DOMAIN elems : elems[i].id = id

\* elem_map[element_id]: a later element replaces an earlier one of the same id
ElemMapGet(id, elems) ==
    elems[CHOOSE i \in DOMAIN elems :
            /\ elems[i].id = id
            /\ \A j \in DOMAIN elems : elems[j].id = id => j <= i]

\* mutant: agreement only strictly inside 0.08
AgreeDist_Strict(d2x4) == d2x4 < (2 * Frac(8, 100)) * (2 * Frac(8, 100))

\* center_dist <= 0.08
AgreeDist(d2x4) == WithinDist(d2x4, 8)

\* mutant: the element_id is always trusted on disagreement
DisagreeChoice_TrustId(snap, eid, element_id) == eid

\* mutant: on disagreement whatever the snap returned is used
DisagreeChoice_UseSnap(snap, eid, element_id) == Rect(snap.x, snap.y, snap.w, snap.h)

\* lines 126-140: the three outcomes of snapping the box on disagreement
DisagreeChoice(snap, eid, element_id) ==
    IF snap.id # None /\ snap.id # element_id THEN Rect(snap.x, snap.y, snap.w, snap.h)
    ELSE IF snap.id = element_id THEN Rect(snap.x, snap.y, snap.w, snap.h)
    ELSE eid

\* mutant: a box, when present, is snapped and used before element_id is looked at
ResolveBeforeClamp_BoxFirst(step, elems) ==
    LET snap == snap_to_nearest_element(Box2dRect(step.box_2d), elems)
    IN  IF HasBox(step) THEN Rect(snap.x, snap.y, snap.w, snap.h)
        ELSE IF step.element_id # None /\ InElemMap(step.element_id, elems)
        THEN bbox_xywh(ElemMapGet(step.element_id, elems))
        ELSE Rect(Frac(4, 10), Frac(4, 10), Frac(2, 10), Frac(2, 10))

\* lines 84-159: (rx, ry, rw, rh) on reaching the clamp
ResolveBeforeClamp(step, elems) ==
    LET raw == Box2dRect(step.box_2d)
        element_id == step.element_id
        eid == bbox_xywh(ElemMapGet(element_id, elems))
        snap == snap_to_nearest_element(raw, elems)
    IN  IF element_id # None /\ InElemMap(element_id, elems)
        THEN IF HasBox(step)
             THEN IF AgreeDist(CenterDist2x4(eid, raw)) THEN eid
                  ELSE DisagreeChoice(snap, eid, element_id)
             ELSE eid
        ELSE IF HasBox(step) THEN Rect(snap.x, snap.y, snap.w, snap.h)
        ELSE Rect(Frac(4, 10), Frac(4, 10), Frac(2, 10), Frac(2, 10))

\* lines 161-165: the clamp
Clamp(r) ==
    LET rx == Max(0, Min(r.x, One))
        ry == Max(0, Min(r.y, One))
        rw == Max(Frac(2, 100), Min(r.w, One - rx))
        rh == Max(Frac(2, 100), Min(r.h, One - ry))
    IN  Rect(rx, ry, rw, rh)

\* mutant: a box without valid element_id is used as given, not snapped
_resolve_bbox_NoSnap(step, elems) ==
    Clamp(IF ~(step.element_id # None /\ InElemMap(step.element_id, elems)) /\ HasBox(step)
          THEN Box2dRect(step.box_2d)
          ELSE ResolveBeforeClamp(step, elems))

_resolve_bbox(step, elems) == Clamp(ResolveBeforeClamp(step, elems))

\* element ids a reasoning call may name: none, ids of a detection pass, an unknown id
ElementIdPool == { None, 0, 1, 2, 7 }

\* box_2d values of a step: absent, of the wrong length, or four numbers
StepBoxPool == Box2dPool \cup { <<>>, <<100, 200>> }

StepPool ==
    { [element_id |-> id, box_2d |-> b, confidence |-> None] :
        id \in ElementIdPool, b \in StepBoxPool }

InitResolve ==
    /\ pc = "resolve"
    /\ DetIdle
    /\ elements \in ElementLists
    /\ SnapIdle
    /\ step_data \in StepPool
    /\ pre_clamp = NoRect
    /\ resolved = NoRect
    /\ SomIdle
    /\ CropIdle
    /\ PlanIdle
    /\ SessIdle
    /\ RefIdle
    /\ VerIdle
    /\ SearchIdle
    /\ RPlanIdle

Resolve ==
    /\ pc = "resolve"
    /\ pre_clamp' = ResolveBeforeClamp(step_data, elements)
    /\ resolved' = _resolve_bbox(step_data, elements)
    /\ pc' = "resolved"
    /\ UNCHANGED <<detVars, elements, snapVars, step_data, somVars, cropVars, planVars, sessVars, refVars, verify_env, searchVars, rplanVars>>

NextResolve == Resolve

SpecResolve == InitResolve /\ [][NextResolve]_vars

-----------------------------------------------------------------------------
(* routers/plan.py: _som_plan_to_step_plan.  Marker centres are rounded to six   *)
(* decimals by the code, so this part counts in millionths: 1.0 is SomOne.      *)

SomOne == 1000000

SOM_COLUMNS == 6
SOM_ROWS == 4

\* _DEFAULT_MARKER_BBOX_HALF = 0.08, in millionths
DEFAULT_MARKER_BBOX_HALF == (8 * SomOne) \div 100

\* round(n / d, 6) in millionths
Round6(n, d) == (2 * n * SomOne + d) \div (2 * d)

\* _generate_markers_and_image, lines 391-404: the 6 x 4 grid, row by row
GridMarkers ==
    [ k \in 1..(SOM_ROWS * SOM_COLUMNS) |->
        LET row == (k - 1) \div SOM_COLUMNS
            col == (k - 1) % SOM_COLUMNS
        IN  [id |-> k - 1,
             cx |-> Round6(2 * col + 1, 2 * SOM_COLUMNS),
             cy |-> Round6(2 * row + 1, 2 * SOM_ROWS)] ]

\* a marker list of another caller: markers at (0.30, 0.40), (0.35, 0.40), (1.0, 0.0)
OtherMarkers ==
    << [id |-> 0, cx |-> 300000, cy |-> 400000],
       [id |-> 1, cx |-> 350000, cy |-> 400000],
       [id |-> 23, cx |-> 1000000, cy |-> 0] >>

MarkerLists == { GridMarkers, OtherMarkers }

\* most som_targets of a step, most steps of a plan
MaxSomTargets == 2
MaxSomSteps == 2

\* SoMTarget(marker_id, confidence in percent or None)
SomTargetPool ==
    { [marker_id |-> 0, confidence |-> 80],
      [marker_id |-> 1, confidence |-> None],
      [marker_id |-> 23, confidence |-> 60],
      [marker_id |-> 99, confidence |-> 50] }

\* SoMStep.som_targets has min_length 1
SomStepPool == SeqsUpTo(SomTargetPool, MaxSomTargets) \ { <<>> }

\* SoMStepPlan.steps has min_length 1
SomPlans ==
    UNION { [1..k -> SomStepPool] : k \in 1..MaxSomSteps }

\* marker_map.get(st.marker_id): the last marker of that id, or none
MarkerKnown(id, ms) == \E i \in DOMAIN ms : ms[i].id = id
MarkerGet(id, ms) ==
    ms[CHOOSE i \in DOMAIN ms :
          ms[i].id = id /\ \A j \in DOMAIN ms : ms[j].id = id => j <= i]

\* lines 469-481: found_markers of one step, in the order of som_targets
FoundMarkers(som_targets, ms) ==
    { MarkerGet(som_targets[i].marker_id, ms) :
        i \in { j \in DOMAIN som_targets : MarkerKnown(som_targets[j].marker_id, ms) } }

\* len(found_markers): one entry per som_target with a known marker
FoundCount(som_targets, ms) ==
    Cardinality({ j \in DOMAIN som_targets : MarkerKnown(som_targets[j].marker_id, ms) })

\* avg_conf before the division: the sum over found targets that carry a confidence
RECURSIVE ConfSum(_, _, _)
ConfSum(som_targets, ms, k) ==
    IF k = 0 THEN 0
    ELSE ConfSum(som_targets, ms, k - 1)
         + (IF /\ MarkerKnown(som_targets[k].marker_id, ms)
               /\ som_targets[k].confidence # None
            THEN som_targets[k].confidence ELSE 0)

SetMin(S) == CHOOSE v \in S : \A u \in S : v <= u
SetMax(S) == CHOOSE v \in S : \A u \in S : v >= u

\* mutant: the padding applied on the low side only
MarkerSpan_PadOnce(lo, hi) ==
    LET x == Max(0, lo - DEFAULT_MARKER_BBOX_HALF)
        w == Min(hi - lo + DEFAULT_MARKER_BBOX_HALF, SomOne - x)
    IN  <<x, Max(w, (2 * SomOne) \div 100)>>

\* lines 506-514 on one axis: (x, w) from the least and greatest marker centre
MarkerSpan(lo, hi) ==
    LET x == Max(0, lo - DEFAULT_MARKER_BBOX_HALF)
        w == Min(hi - lo + DEFAULT_MARKER_BBOX_HALF * 2, SomOne - x)
    IN  <<x, Max(w, (2 * SomOne) \div 100)>>

\* lines 467-529: the TargetRect of one step; confidence is the pair (sum, count) of avg_conf
SomStepTarget(som_targets, ms) ==
    LET found == FoundMarkers(som_targets, ms)
        sx == MarkerSpan(SetMin({ m.cx : m \in found }), SetMax({ m.cx : m \in found }))
        sy == MarkerSpan(SetMin({ m.cy : m \in found }), SetMax({ m.cy : m \in found }))
        conf_sum == ConfSum(som_targets, ms, Len(som_targets))
    IN  IF found = {}
        THEN [x |-> (4 * SomOne) \div 10, y |-> (4 * SomOne) \div 10,
              w |-> (2 * SomOne) \div 10, h |-> (2 * SomOne) \div 10,
              confidence |-> <<10, 1>>, label |-> "fallback - marker not found"]
        ELSE [x |-> sx[1], y |-> sy[1], w |-> sx[2], h |-> sy[2],
              confidence |-> IF conf_sum > 0
                             THEN <<conf_sum, FoundCount(som_targets, ms)>>
                             ELSE None,
              label |-> NoLabel]      \* the targets of SomTargetPool carry no label

\* _som_plan_to_step_plan: one target per step, in order
_som_plan_to_step_plan(plan, ms) ==
    [ i \in DOMAIN plan |-> SomStepTarget(plan[i], ms) ]

InitSom ==
    /\ pc = "som"
    /\ DetIdle
    /\ elements = <<>>
    /\ SnapIdle
    /\ ResIdle
    /\ markers \in MarkerLists
    /\ som_plan \in SomPlans
    /\ som_steps = <<>>
    /\ CropIdle
    /\ PlanIdle
    /\ SessIdle
    /\ RefIdle
    /\ VerIdle
    /\ SearchIdle
    /\ RPlanIdle

SomConvert ==
    /\ pc = "som"
    /\ som_steps' = _som_plan_to_step_plan(som_plan, markers)
    /\ pc' = "som_done"
    /\ UNCHANGED <<detVars, elements, snapVars, resVars, markers, som_plan, cropVars, planVars, sessVars, refVars, verify_env, searchVars, rplanVars>>

NextSom == SomConvert

SpecSom == InitSom /\ [][NextSom]_vars

\* the two resolvers of references, each called once on inputs of its own
InitFallback == InitResolve \/ InitSom

NextFallback == NextResolve \/ NextSom

SpecFallback == InitFallback /\ [][NextFallback]_vars

-----------------------------------------------------------------------------
(* routers/plan.py: _crop_region *)

\* _OMNI_REFINE_PADDING = 0.10, _OMNI_MIN_CROP = 0.20, _EDGE_SNAP_THRESHOLD = 0.15
OMNI_REFINE_PADDING == Frac(10, 100)
OMNI_MIN_CROP == Frac(20, 100)
EDGE_SNAP_THRESHOLD == Frac(15, 100)

\* target_cx < _EDGE_SNAP_THRESHOLD, for the doubled centre 2x + w
SnapsLow(c2) == c2 < 2 * EDGE_SNAP_THRESHOLD

\* mutant: the right and bottom edges are never snapped to
SnapsHigh_Never(c2) == FALSE

\* target_cx > (1.0 - _EDGE_SNAP_THRESHOLD), for the doubled centre 2x + w
SnapsHigh(c2) == c2 > 2 * (One - EDGE_SNAP_THRESHOLD)

\* mutant: the last clamp takes cx off the width, not off the limit
CropAxis_ClampWidthFirst(x, w) ==
    LET pad == OMNI_REFINE_PADDING
        small == w + pad * 2 < OMNI_MIN_CROP
        cx0 == IF small THEN x + w \div 2 - OMNI_MIN_CROP \div 2 ELSE x - pad
        cw0 == IF small THEN OMNI_MIN_CROP ELSE w + pad * 2
        c2 == 2 * x + w
        cw1 == IF SnapsLow(c2) THEN cw0 + cx0 ELSE cw0
        cx1 == IF SnapsLow(c2) THEN 0 ELSE cx0
        cw2 == IF SnapsHigh(c2) THEN One - cx1 ELSE cw1
        cx == Max(0, cx1)
    IN  <<cx, Min(cw2, One) - cx>>

\* lines 864-905 on one axis: (cx, cw) from the target's (x, w).  The minimum-size
\* branch halves w; it is taken only for w < 0.
CropAxis(x, w) ==
    LET pad == OMNI_REFINE_PADDING
        small == w + pad * 2 < OMNI_MIN_CROP
        cx0 == IF small THEN x + w \div 2 - OMNI_MIN_CROP \div 2 ELSE x - pad
        cw0 == IF small THEN OMNI_MIN_CROP ELSE w + pad * 2
        c2 == 2 * x + w
        cw1 == IF SnapsLow(c2) THEN cw0 + cx0 ELSE cw0
        cx1 == IF SnapsLow(c2) THEN 0 ELSE cx0
        cw2 == IF SnapsHigh(c2) THEN One - cx1 ELSE cw1
        cx == Max(0, cx1)
    IN  <<cx, Min(cw2, One - cx)>>

\* _crop_region: the CropRect
_crop_region(t) ==
    [cx |-> CropAxis(t.x, t.w)[1], cy |-> CropAxis(t.y, t.h)[1],
     cw |-> CropAxis(t.x, t.w)[2], ch |-> CropAxis(t.y, t.h)[2]]

\* TargetRect of type bbox_norm as the schema admits it
TargetRectValid(r) ==
    /\ 0 <= r.x /\ r.x <= One
    /\ 0 <= r.y /\ r.y <= One
    /\ 0 < r.w /\ r.w <= One
    /\ 0 < r.h /\ r.h <= One
    /\ r.x + r.w <= One
    /\ r.y + r.h <= One

\* positions and sizes of targets on one axis
AxisPool ==
    { <<0, 40>>, <<0, 2000>>, <<40, 80>>, <<60, 41>>, <<250, 40>>, <<250, 120>>,
      <<280, 40>>, <<290, 20>>, <<900, 200>>, <<1000, 1>>, <<1400, 600>>,
      <<1680, 40>>, <<1690, 20>>, <<1700, 40>>, <<1720, 40>>, <<1900, 100>>, <<1960, 40>> }

TargetPool ==
    { r \in { Rect(a[1], b[1], a[2], b[2]) : a \in AxisPool, b \in AxisPool } :
        TargetRectValid(r) }

InitCrop ==
    /\ pc = "crop"
    /\ DetIdle
    /\ elements = <<>>
    /\ SnapIdle
    /\ ResIdle
    /\ SomIdle
    /\ target_rect \in TargetPool
    /\ crop_rect = NoCrop
    /\ PlanIdle
    /\ SessIdle
    /\ RefIdle
    /\ VerIdle
    /\ SearchIdle
    /\ RPlanIdle

CropRegion ==
    /\ pc = "crop"
    /\ crop_rect' = _crop_region(target_rect)
    /\ pc' = "cropped"
    /\ UNCHANGED <<detVars, elements, snapVars, resVars, somVars, target_rect, planVars, sessVars, refVars, verify_env, searchVars, rplanVars>>

NextCrop == CropRegion

SpecCrop == InitCrop /\ [][NextCrop]_vars

-----------------------------------------------------------------------------
(* routers/plan.py: _verify_and_correct_step and create_plan (POST /plan).     *)
(* A rectangle mapped back from a crop is crop origin + local * crop size, a   *)
(* product of two coordinates: the targets of /plan are kept in units of       *)
(* 1/One^2 (FineOne is 1.0).                                                    *)

FineOne == One * One

Fine(r) == Rect(r.x * One, r.y * One, r.w * One, r.h * One)

\* _VERIFY_CROP_PAD = 0.08, _VERIFY_MIN_CROP = 0.15, _VERIFY_CONFIDENCE_THRESHOLD = 0.6 (percent)
VERIFY_CROP_PAD == Frac(8, 100)
VERIFY_MIN_CROP == Frac(15, 100)
VERIFY_CONFIDENCE_THRESHOLD == 60

\* lines 202-216 on one axis: (cx, cw) of the verification crop
VerifyCropAxis(x, w) ==
    LET pad == VERIFY_CROP_PAD
        cx0 == Max(0, x - pad)
        cw0 == Min(w + pad * 2, One - cx0)
        center == x + w \div 2
        cx1 == Max(0, center - VERIFY_MIN_CROP \div 2)
    IN  IF cw0 < VERIFY_MIN_CROP THEN <<cx1, Min(VERIFY_MIN_CROP, One - cx1)>>
        ELSE <<cx0, cw0>>

\* mutant: the crop origin is not added back
MapBack_NoOrigin(local, cx, cy, cw, ch) ==
    Rect(local.x * cw, local.y * ch, local.w * cw, local.h * ch)

\* "full = crop origin + local * crop size" for a crop-local rectangle, lines 307-310, 329-332
MapBack(local, cx, cy, cw, ch) ==
    Rect(cx * One + local.x * cw, cy * One + local.y * ch, local.w * cw, local.h * ch)

\* what verify_element returns: a dict that may carry "correct",
\* "correct_element_id" and "box_2d", or the call raises
Verdicts ==
    { [raised |-> FALSE, has_correct |-> TRUE, correct |-> c,
       correct_element_id |-> id, box_2d |-> b] :
        c \in BOOLEAN,
        id \in { None, 0, 1, 5 },
        b \in { <<>>, <<400, 400, 450, 450>>, <<0, 1200, 100, 900>>, <<950, 950, 1000, 1000>> } }
    \cup { [raised |-> FALSE, has_correct |-> FALSE, correct |-> FALSE,
            correct_element_id |-> id, box_2d |-> b] :
        id \in { None, 0 },
        b \in { <<>>, <<400, 400, 450, 450>> } }
    \cup { [raised |-> TRUE, has_correct |-> FALSE, correct |-> FALSE,
            correct_element_id |-> None, box_2d |-> <<>>] }

\* mutant: a verdict without "correct" counts as incorrect
VerdictCorrect_DefaultFalse(verdict) == verdict.has_correct /\ verdict.correct

\* result.get("correct", True)
VerdictCorrect(verdict) == IF verdict.has_correct THEN verdict.correct ELSE TRUE

\* lines 237-338 once the crop's elements are known
VerifyWithElements(r, crop_elements, verdict) ==
    LET ax == VerifyCropAxis(r.x, r.w)
        ay == VerifyCropAxis(r.y, r.h)
        snap == snap_to_nearest_element(Box2dRect(verdict.box_2d), crop_elements)
    IN  IF crop_elements = <<>> THEN Fine(r)
        ELSE IF verdict.raised THEN Fine(r)
        ELSE IF VerdictCorrect(verdict) THEN Fine(r)
        ELSE IF /\ verdict.correct_element_id # None
                /\ InElemMap(verdict.correct_element_id, crop_elements)
             THEN MapBack(bbox_xywh(ElemMapGet(verdict.correct_element_id, crop_elements)),
                          ax[1], ay[1], ax[2], ay[2])
        ELSE IF Len(verdict.box_2d) = 4
             THEN MapBack(Rect(snap.x, snap.y, snap.w, snap.h), ax[1], ay[1], ax[2], ay[2])
        ELSE Fine(r)

\* detector output on a crop, crop-local
CropElemPool ==
    { <<90, <<800, 800, 900, 900>>>>,
      <<80, <<200, 200, 1400, 1200>>>>,
      <<70, <<0, 1500, 2000, 2000>>>> }

MaxCropElems == 2

CropElementLists ==
    { SortAndRenumber(detect_elements(raw)) : raw \in SeqsUpTo(CropElemPool, MaxCropElems) }

\* lines 1262-1286 for one step: _verify_and_correct_step, and the except that
\* keeps the resolved rectangle when it raises
VerifyStep(r, env, crop_elements) ==
    IF env.detect_raised THEN Fine(r)
    ELSE VerifyWithElements(r, crop_elements, env.verdict)

\* whether detect_elements raised on the crop, and the verdict
VerifyEnvs ==
    { [detect_raised |-> TRUE, verdict |-> NoVerdict] }
    \cup { [detect_raised |-> FALSE, verdict |-> v] : v \in Verdicts }

\* the rectangle create_plan holds after lines 1262-1286: the result of
\* _verify_and_correct_step, or the resolved rectangle when it raised
VerifyOutcomes(r) ==
    { VerifyStep(r, env, ce) : env \in VerifyEnvs, ce \in CropElementLists }

\* TargetRect(type=bbox_norm, x, y, w, h) validates, for a rectangle in units of 1/u
TargetRectAccepts(r, u) ==
    /\ 0 <= r.x /\ r.x <= u
    /\ 0 <= r.y /\ r.y <= u
    /\ 0 < r.w /\ r.w <= u
    /\ 0 < r.h /\ r.h <= u
    /\ r.x + r.w <= u
    /\ r.y + r.h <= u

\* step_data.get("confidence", 0.5), in percent
StepConfidence(step) == IF step.confidence = None THEN 50 ELSE step.confidence

\* needs_verify, lines 1257-1260
NeedsVerify(step_idx, step) ==
    step_idx = 0 \/ StepConfidence(step) < VERIFY_CONFIDENCE_THRESHOLD

MaxSteps == 2

\* detector output on screenshots sent to /plan
PlanElemPool ==
    { <<90, <<200, 200, 300, 260>>>>,
      <<80, <<100, 100, 600, 500>>>>,
      <<40, <<1600, 1600, 1800, 1700>>>> }

PlanElementLists ==
    { SortAndRenumber(detect_elements(raw)) : raw \in SeqsUpTo(PlanElemPool, MaxElems) }

\* steps of a reasoning result
PlanStepPool ==
    { [element_id |-> 0, box_2d |-> <<105, 110, 130, 150>>, confidence |-> 90],
      [element_id |-> None, box_2d |-> <<500, 990, 550, 1040>>, confidence |-> None],
      [element_id |-> 7, box_2d |-> <<>>, confidence |-> 40],
      [element_id |-> 1, box_2d |-> <<500, 500, 550, 550>>, confidence |-> 90],
      [element_id |-> None, box_2d |-> <<500, 500, 550, 550>>, confidence |-> 90],
      [element_id |-> None, box_2d |-> <<100, 200>>, confidence |-> 90] }

PlanResults == UNION { [1..k -> PlanStepPool] : k \in 0..MaxSteps }

InitPlan ==
    /\ pc = "plan"
    /\ DetIdle
    /\ elements = <<>>
    /\ SnapIdle
    /\ ResIdle
    /\ SomIdle
    /\ CropIdle
    /\ PlanIdle
    /\ SessIdle
    /\ RefIdle
    /\ VerIdle
    /\ SearchIdle
    /\ RPlanIdle

\* STEP 2: detect_elements on the screenshot, sort, renumber
PlanDetect ==
    /\ pc = "plan"
    /\ elements' \in PlanElementLists
    /\ pc' = "plan_detected"
    /\ UNCHANGED <<detVars, snapVars, resVars, somVars, cropVars, planVars, sessVars, refVars, verify_env, searchVars, rplanVars>>

\* detect_elements raises: except Exception -> HTTP 500
PlanDetectRaises ==
    /\ pc = "plan"
    /\ failure' = "detector"
    /\ pc' = "plan_error"
    /\ UNCHANGED <<detVars, elements, snapVars, resVars, somVars, cropVars,
                   plan_steps, converted_steps, verify_ran, verified, sessVars, refVars, verify_env, searchVars, rplanVars>>

\* STEP 4: generate_gemini_plan returns
PlanReason ==
    /\ pc = "plan_detected"
    /\ plan_steps' \in PlanResults
    /\ pc' = "plan_loop"
    /\ UNCHANGED <<detVars, elements, snapVars, resVars, somVars, cropVars,
                   converted_steps, verify_ran, verified, failure, sessVars, refVars, verify_env, searchVars, rplanVars>>

\* generate_gemini_plan raises AgentError -> HTTP 502
PlanReasonRaises ==
    /\ pc = "plan_detected"
    /\ failure' = "reasoning"
    /\ pc' = "plan_error"
    /\ UNCHANGED <<detVars, elements, snapVars, resVars, somVars, cropVars,
                   plan_steps, converted_steps, verify_ran, verified, sessVars, refVars, verify_env, searchVars, rplanVars>>

\* the rectangles the loop of STEP 5 can hold at the TargetRect constructor
\* for plan_steps[step_idx + 1], lines 1240-1286
StepOutcomes(step_idx, step, elems) ==
    IF NeedsVerify(step_idx, step)
    THEN VerifyOutcomes(_resolve_bbox(step, elems))
    ELSE { Fine(_resolve_bbox(step, elems)) }

\* one turn of the loop up to the TargetRect constructor
PlanStepBody(v) ==
    /\ step_data' = plan_steps[Len(converted_steps) + 1]
    /\ pre_clamp' = ResolveBeforeClamp(step_data', elements)
    /\ resolved' = _resolve_bbox(step_data', elements)
    /\ verify_ran' = Append(verify_ran, NeedsVerify(Len(converted_steps), step_data'))
    /\ verified' = v

\* lines 1296-1306: the TargetRect is accepted and the step appended
PlanStep ==
    /\ pc = "plan_loop"
    /\ Len(converted_steps) < Len(plan_steps)
    /\ \E v \in StepOutcomes(Len(converted_steps), plan_steps[Len(converted_steps) + 1], elements) :
        /\ TargetRectAccepts(v, FineOne)
        /\ PlanStepBody(v)
        /\ converted_steps' =
              Append(converted_steps,
                     [x |-> v.x, y |-> v.y, w |-> v.w, h |-> v.h,
                      confidence |-> StepConfidence(step_data')])
    /\ pc' = "plan_loop"
    /\ UNCHANGED <<detVars, elements, snapVars, somVars, cropVars, plan_steps, failure, sessVars, refVars, verify_env, searchVars, rplanVars>>

\* TargetRect raises a validation error: except Exception -> HTTP 500
PlanStepInvalid ==
    /\ pc = "plan_loop"
    /\ Len(converted_steps) < Len(plan_steps)
    /\ \E v \in StepOutcomes(Len(converted_steps), plan_steps[Len(converted_steps) + 1], elements) :
        /\ ~TargetRectAccepts(v, FineOne)
        /\ PlanStepBody(v)
    /\ failure' = "TargetRect"
    /\ pc' = "plan_error"
    /\ UNCHANGED <<detVars, elements, snapVars, somVars, cropVars, plan_steps,
                   converted_steps, sessVars, refVars, verify_env, searchVars, rplanVars>>

\* lines 1308-1336: StepPlan(steps=converted_steps) and the response
PlanBuild ==
    /\ pc = "plan_loop"
    /\ Len(converted_steps) = Len(plan_steps)
    /\ Len(converted_steps) >= 1
    /\ pc' = "plan_ok"
    /\ UNCHANGED <<detVars, elements, snapVars, resVars, somVars, cropVars, planVars, sessVars, refVars, verify_env, searchVars, rplanVars>>

\* StepPlan.steps has min_length 1: no steps raises -> HTTP 500
PlanBuildInvalid ==
    /\ pc = "plan_loop"
    /\ Len(plan_steps) = 0
    /\ failure' = "StepPlan"
    /\ pc' = "plan_error"
    /\ UNCHANGED <<detVars, elements, snapVars, resVars, somVars, cropVars,
                   plan_steps, converted_steps, verify_ran, verified, sessVars, refVars, verify_env, searchVars, rplanVars>>

NextPlan ==
    \/ PlanDetect
    \/ PlanDetectRaises
    \/ PlanReason
    \/ PlanReasonRaises
    \/ PlanStep
    \/ PlanStepInvalid
    \/ PlanBuild
    \/ PlanBuildInvalid

SpecPlan == InitPlan /\ [][NextPlan]_vars

-----------------------------------------------------------------------------
\* _verify_and_correct_step on one resolved rectangle, as create_plan calls it

\* the rectangle _resolve_bbox produced for a step of the plan
InitVerify ==
    /\ pc = "verify"
    /\ DetIdle
    /\ elements = <<>>
    /\ SnapIdle
    /\ step_data \in PlanStepPool
    /\ \E elems \in PlanElementLists :
        /\ pre_clamp = ResolveBeforeClamp(step_data, elems)
        /\ resolved = _resolve_bbox(step_data, elems)
    /\ SomIdle
    /\ CropIdle
    /\ PlanIdle
    /\ SessIdle
    /\ RefIdle
    /\ VerIdle
    /\ SearchIdle
    /\ RPlanIdle

\* lines 1262-1286: the crop is detected, verify_element answers, and
\* bbox_x, bbox_y, bbox_w, bbox_h are reassigned (or kept by the except)
Verify ==
    /\ pc = "verify"
    /\ verify_env' \in VerifyEnvs
    /\ elements' \in CropElementLists
    /\ verified' = VerifyStep(resolved, verify_env', elements')
    /\ pc' = "verified"
    /\ UNCHANGED <<detVars, snapVars, resVars, somVars, cropVars,
                   plan_steps, converted_steps, verify_ran, failure, sessVars, refVars, searchVars, rplanVars>>

NextVerify == Verify

SpecVerify == InitVerify /\ [][NextVerify]_vars

-----------------------------------------------------------------------------
\* services/search.py: the in-memory store of search context

\* goals handed to the search service; the empty string is a str like any other
GoalPool == { "", "a", "b" }

\* what _extract_search_context returns for the results of a search
ContextPool == { "1", "2" }

StorePut(store, goal, context) ==
    [g \in DOMAIN store \cup { goal } |-> IF g = goal THEN context ELSE store[g]]

\* _search_store.pop(goal, None)
StorePop(store, goal) == [g \in DOMAIN store \ { goal } |-> store[g]]

\* _search_store.get(goal, "")
get_stored_search_context(store, goal) ==
    IF goal \in DOMAIN store THEN store[goal] ELSE ""

\* clear_search_context(goal=None); `if goal:` is false for None and for ""
clear_search_context(store, given, goal) ==
    IF given /\ goal # "" THEN StorePop(store, goal) ELSE EmptyStore

InitSearch ==
    /\ pc = "search"
    /\ DetIdle
    /\ elements = <<>>
    /\ SnapIdle
    /\ ResIdle
    /\ SomIdle
    /\ CropIdle
    /\ PlanIdle
    /\ SessIdle
    /\ RefIdle
    /\ VerIdle
    /\ SearchIdle
    /\ RPlanIdle

\* search_for_goal reaches step 4 and stores the context under the goal
SearchForGoal ==
    /\ pc = "search"
    /\ \E goal \in GoalPool, context \in ContextPool :
        /\ search_store' = StorePut(search_store, goal, context)
        /\ search_call' = [op |-> "search_for_goal", given |-> TRUE, goal |-> goal,
                           returned |-> context]
    /\ search_before' = search_store
    /\ UNCHANGED <<pc, detVars, elements, snapVars, resVars, somVars, cropVars, planVars,
                   sessVars, refVars, verify_env, rplanVars>>

\* search_for_goal returns "" early: no BRIGHTDATA_API_KEY, or no result
SearchForGoalSkips ==
    /\ pc = "search"
    /\ \E goal \in GoalPool :
        search_call' = [op |-> "search_for_goal", given |-> TRUE, goal |-> goal,
                        returned |-> ""]
    /\ search_before' = search_store
    /\ UNCHANGED <<pc, detVars, elements, snapVars, resVars, somVars, cropVars, planVars,
                   sessVars, refVars, verify_env, search_store, rplanVars>>

GetStoredSearchContext ==
    /\ pc = "search"
    /\ \E goal \in GoalPool :
        search_call' = [op |-> "get_stored_search_context", given |-> TRUE, goal |-> goal,
                        returned |-> get_stored_search_context(search_store, goal)]
    /\ search_before' = search_store
    /\ UNCHANGED <<pc, detVars, elements, snapVars, resVars, somVars, cropVars, planVars,
                   sessVars, refVars, verify_env, search_store, rplanVars>>

\* clear_search_context(goal)
ClearSearchContextOf ==
    /\ pc = "search"
    /\ \E goal \in GoalPool :
        /\ search_store' = clear_search_context(search_store, TRUE, goal)
        /\ search_call' = [op |-> "clear_search_context", given |-> TRUE, goal |-> goal,
                           returned |-> ""]
    /\ search_before' = search_store
    /\ UNCHANGED <<pc, detVars, elements, snapVars, resVars, somVars, cropVars, planVars,
                   sessVars, refVars, verify_env, rplanVars>>

\* clear_search_context()
ClearSearchContextAll ==
    /\ pc = "search"
    /\ search_store' = clear_search_context(search_store, FALSE, "")
    /\ search_call' = [op |-> "clear_search_context", given |-> FALSE, goal |-> "",
                       returned |-> ""]
    /\ search_before' = search_store
    /\ UNCHANGED <<pc, detVars, elements, snapVars, resVars, somVars, cropVars, planVars,
                   sessVars, refVars, verify_env, rplanVars>>

NextSearch ==
    \/ SearchForGoal
    \/ SearchForGoalSkips
    \/ GetStoredSearchContext
    \/ ClearSearchContextOf
    \/ ClearSearchContextAll

SpecSearch == InitSearch /\ [][NextSearch]_vars

-----------------------------------------------------------------------------
\* routers/next_step.py: Pass 2 of POST /next up to the crop of one step

\* pad = 0.06, min_crop = 0.10
NEXT_CROP_PAD == Frac(6, 100)
NEXT_MIN_CROP == Frac(10, 100)

\* lines 166-177 on one axis: (crop_x, crop_w) from (loc_x, loc_w)
NextCropAxis(loc, size) ==
    LET pad == NEXT_CROP_PAD
        crop0 == Max(0, loc - pad)
        size0 == Min(size + pad * 2, One - crop0)
        center == loc + size \div 2
        crop1 == Max(0, center - NEXT_MIN_CROP \div 2)
    IN  IF size0 < NEXT_MIN_CROP THEN <<crop1, Min(NEXT_MIN_CROP, One - crop1)>>
        ELSE <<crop0, size0>>

\* lines 159-177: the crop around the Pass-1 box_2d = [ymin, xmin, ymax, xmax]
Pass2Crop(b) ==
    LET loc == Box2dRect(b)
    IN  [cx |-> NextCropAxis(loc.x, loc.w)[1], cy |-> NextCropAxis(loc.y, loc.h)[1],
         cw |-> NextCropAxis(loc.x, loc.w)[2], ch |-> NextCropAxis(loc.y, loc.h)[2]]

\* box_2d values of a Pass-1 step: four numbers of any size and order, or not four
NextBoxPool ==
    { <<ymin, xmin, ymin + h, xmin + w>> :
        ymin \in { 0, 470, 1000 }, xmin \in { 0, 470, 1000, 1050 },
        h \in { 0, 30, 100 }, w \in { -200, 0, 30, 100 } }
    \cup { <<>>, <<100, 200>> }

InitNextStep ==
    /\ pc = "pass2"
    /\ DetIdle
    /\ elements = <<>>
    /\ SnapIdle
    /\ step_data \in { [element_id |-> None, box_2d |-> b, confidence |-> None] : b \in NextBoxPool }
    /\ pre_clamp = NoRect
    /\ resolved = NoRect
    /\ SomIdle
    /\ CropIdle
    /\ PlanIdle
    /\ SessIdle
    /\ RefIdle
    /\ VerIdle
    /\ SearchIdle
    /\ RPlanIdle

\* lines 149-157: box_2d missing or not of length four, the fallback target
NextStepFallback ==
    /\ pc = "pass2"
    /\ ~HasBox(step_data)
    /\ resolved' = Rect(Frac(4, 10), Frac(4, 10), Frac(2, 10), Frac(2, 10))
    /\ pc' = "pass2_fallback"
    /\ UNCHANGED <<detVars, elements, snapVars, step_data, pre_clamp, somVars, cropVars,
                   planVars, sessVars, refVars, verify_env, searchVars, rplanVars>>

\* lines 159-177: the crop rectangle handed to img.crop
NextStepCrop ==
    /\ pc = "pass2"
    /\ HasBox(step_data)
    /\ crop_rect' = Pass2Crop(step_data.box_2d)
    /\ pc' = "pass2_cropped"
    /\ UNCHANGED <<detVars, elements, snapVars, resVars, somVars, target_rect,
                   planVars, sessVars, refVars, verify_env, searchVars, rplanVars>>

NextNextStep == NextStepFallback \/ NextStepCrop

SpecNextStep == InitNextStep /\ [][NextNextStep]_vars

-----------------------------------------------------------------------------
\* routers/plan.py: event_stream of create_plan_stream (POST /plan-stream), after
\* the session take

InitStream ==
    /\ pc = "stream"
    /\ DetIdle
    /\ elements = <<>>
    /\ SnapIdle
    /\ ResIdle
    /\ SomIdle
    /\ CropIdle
    /\ PlanIdle
    /\ SessIdle
    /\ RefIdle
    /\ VerIdle
    /\ SearchIdle
    /\ RPlanIdle

\* lines 1419-1429: the prefetched elements, or a fresh detection sorted and renumbered
StreamDetect ==
    /\ pc = "stream"
    /\ elements' \in PlanElementLists
    /\ pc' = "stream_detected"
    /\ UNCHANGED <<detVars, snapVars, resVars, somVars, cropVars, planVars, sessVars,
                   refVars, verify_env, searchVars, rplanVars>>

\* detect_elements or the stream generator raises: the error event of line 1503
StreamRaises ==
    /\ pc \in { "stream", "stream_detected" }
    /\ failure' = IF pc = "stream" THEN "detector" ELSE "reasoning"
    /\ pc' = "stream_error"
    /\ UNCHANGED <<detVars, elements, snapVars, resVars, somVars, cropVars,
                   plan_steps, converted_steps, verify_ran, verified, sessVars, refVars,
                   verify_env, searchVars, rplanVars>>

\* lines 1463-1469: the stream delivers a plan event
StreamReason ==
    /\ pc = "stream_detected"
    /\ plan_steps' \in PlanResults
    /\ pc' = "stream_loop"
    /\ UNCHANGED <<detVars, elements, snapVars, resVars, somVars, cropVars,
                   converted_steps, verify_ran, verified, failure, sessVars, refVars,
                   verify_env, searchVars, rplanVars>>

\* lines 1471-1473: no plan event, "No plan generated"
StreamNoPlan ==
    /\ pc = "stream_detected"
    /\ failure' = "no plan"
    /\ pc' = "stream_error"
    /\ UNCHANGED <<detVars, elements, snapVars, resVars, somVars, cropVars,
                   plan_steps, converted_steps, verify_ran, verified, sessVars, refVars,
                   verify_env, searchVars, rplanVars>>

\* one turn of the loop of lines 1476-1496: _resolve_bbox and nothing else
StreamStepBody ==
    /\ step_data' = plan_steps[Len(converted_steps) + 1]
    /\ pre_clamp' = ResolveBeforeClamp(step_data', elements)
    /\ resolved' = _resolve_bbox(step_data', elements)
    /\ verify_ran' = Append(verify_ran, FALSE)
    /\ verified' = Fine(resolved')

\* lines 1490-1496: the TargetRect is accepted and the step appended
StreamStep ==
    /\ pc = "stream_loop"
    /\ Len(converted_steps) < Len(plan_steps)
    /\ StreamStepBody
    /\ TargetRectAccepts(verified', FineOne)
    /\ converted_steps' =
          Append(converted_steps,
                 [x |-> verified'.x, y |-> verified'.y, w |-> verified'.w, h |-> verified'.h,
                  confidence |-> StepConfidence(step_data')])
    /\ pc' = "stream_loop"
    /\ UNCHANGED <<detVars, elements, snapVars, somVars, cropVars, plan_steps, failure,
                   sessVars, refVars, verify_env, searchVars, rplanVars>>

\* TargetRect raises a validation error: the error event of line 1503
StreamStepInvalid ==
    /\ pc = "stream_loop"
    /\ Len(converted_steps) < Len(plan_steps)
    /\ StreamStepBody
    /\ ~TargetRectAccepts(verified', FineOne)
    /\ failure' = "TargetRect"
    /\ pc' = "stream_error"
    /\ UNCHANGED <<detVars, elements, snapVars, somVars, cropVars, plan_steps,
                   converted_steps, sessVars, refVars, verify_env, searchVars, rplanVars>>

\* lines 1498-1500: StepPlan(steps=converted_steps) and the plan event
StreamBuild ==
    /\ pc = "stream_loop"
    /\ Len(converted_steps) = Len(plan_steps)
    /\ Len(converted_steps) >= 1
    /\ pc' = "stream_ok"
    /\ UNCHANGED <<detVars, elements, snapVars, resVars, somVars, cropVars, planVars,
                   sessVars, refVars, verify_env, searchVars, rplanVars>>

\* StepPlan.steps has min_length 1: no steps raises, the error event of line 1503
StreamBuildInvalid ==
    /\ pc = "stream_loop"
    /\ Len(plan_steps) = 0
    /\ failure' = "StepPlan"
    /\ pc' = "stream_error"
    /\ UNCHANGED <<detVars, elements, snapVars, resVars, somVars, cropVars,
                   plan_steps, converted_steps, verify_ran, verified, sessVars, refVars,
                   verify_env, searchVars, rplanVars>>

NextStream ==
    \/ StreamDetect
    \/ StreamRaises
    \/ StreamReason
    \/ StreamNoPlan
    \/ StreamStep
    \/ StreamStepInvalid
    \/ StreamBuild
    \/ StreamBuildInvalid

SpecStream == InitStream /\ [][NextStream]_vars

-----------------------------------------------------------------------------
(* routers/plan.py: the session cache of POST /start and POST /plan-stream.   *)
(* Both handlers are coroutines on one event loop: a handler runs             *)
(* uninterrupted from one await to the next.                                   *)

\* _SESSION_TTL = 120 seconds
SESSION_TTL == 120

\* the clock is read in steps of TickSeconds: ages 60, 120 and 180 are all met
TickSeconds == 60
MaxTime == 180

MaxSessions == 2
MaxStreams == 2

\* element lists /start or /plan-stream detect on a screenshot
SessionElementLists == { l \in PlanElementLists : Len(l) = 1 /\ l[1].conf >= 90 }

\* the session_id form field: absent, a uuid /start has returned, or a string
\* /start never gives (a client cannot name a uuid4 before /start draws it)
UnknownSid == 99
SessionIdPool(issued) == { None, UnknownSid } \cup (1..issued)

\* "cached" when pop finds nothing
NoEntry == [elements |-> <<>>, ts |-> None]

\* dict operations on _session_cache
CacheHas(cache, sid) == sid \in DOMAIN cache
CacheDel(cache, sids) == [ k \in DOMAIN cache \ sids |-> cache[k] ]
CachePut(cache, sid, entry) ==
    [ k \in DOMAIN cache \cup { sid } |-> IF k = sid THEN entry ELSE cache[k] ]

\* mutant: an entry of age exactly _SESSION_TTL is dropped too
_prune_sessions_Inclusive(cache, t) ==
    CacheDel(cache, { sid \in DOMAIN cache : t - cache[sid].ts >= SESSION_TTL })

\* _prune_sessions: drops the entries with now - ts > _SESSION_TTL
_prune_sessions(cache, t) ==
    CacheDel(cache, { sid \in DOMAIN cache : t - cache[sid].ts > SESSION_TTL })

\* mutant: the entry is read with get and stays in the cache
CacheAfterTake_Get(cache, sid) == cache

\* _session_cache.pop(session_id, None): the cache after the call
CacheAfterTake(cache, sid) ==
    CacheDel(cache, { sid })

\* mutant: an entry of age exactly _SESSION_TTL is still served
EntryFresh_Inclusive(entry, t) == t - entry.ts <= SESSION_TTL

\* time.time() - cached["ts"] < _SESSION_TTL
EntryFresh(entry, t) == t - entry.ts < SESSION_TTL

\* lines 1384-1398: a request that does not use a session; upload is "none",
\* "empty" or "image", size_ok says whether image_size parses
NoSessionOutcome(upload, size_ok) ==
    IF ~size_ok THEN "422"
    ELSE IF upload = "none" THEN "422"
    ELSE IF upload = "empty" THEN "422"
    ELSE "fresh"

InitSession ==
    /\ pc = "serve"
    /\ DetIdle
    /\ elements = <<>>
    /\ SnapIdle
    /\ ResIdle
    /\ SomIdle
    /\ CropIdle
    /\ PlanIdle
    /\ SessIdle
    /\ RefIdle
    /\ VerIdle
    /\ SearchIdle
    /\ RPlanIdle

\* time passes
Tick ==
    /\ now + TickSeconds <= MaxTime
    /\ now' = now + TickSeconds
    /\ UNCHANGED <<pc, detVars, elements, snapVars, resVars, somVars, cropVars, planVars,
                   session_cache, next_sid, start_inflight, stream_log, refVars, verify_env, searchVars, rplanVars>>

\* /start up to "await screenshot.read()": _prune_sessions, image_size parsed
StartBegin ==
    /\ next_sid + start_inflight <= MaxSessions
    /\ session_cache' = _prune_sessions(session_cache, now)
    /\ start_inflight' = start_inflight + 1
    /\ UNCHANGED <<pc, detVars, elements, snapVars, resVars, somVars, cropVars, planVars,
                   now, next_sid, stream_log, refVars, verify_env, searchVars, rplanVars>>

\* /start with an image_size that does not parse: 422 after _prune_sessions
StartInvalidSize ==
    /\ session_cache' = _prune_sessions(session_cache, now)
    /\ UNCHANGED <<pc, detVars, elements, snapVars, resVars, somVars, cropVars, planVars,
                   now, next_sid, start_inflight, stream_log, refVars, verify_env, searchVars, rplanVars>>

\* /start ends after the read with nothing stored: screenshot empty (422) or
\* too large (413), or detect_elements raises
StartReject ==
    /\ start_inflight > 0
    /\ start_inflight' = start_inflight - 1
    /\ UNCHANGED <<pc, detVars, elements, snapVars, resVars, somVars, cropVars, planVars,
                   now, session_cache, next_sid, stream_log, refVars, verify_env, searchVars, rplanVars>>

\* /start from the read to the return: uuid4, detection, the entry stored
StartStore ==
    /\ start_inflight > 0
    /\ \E els \in SessionElementLists :
          session_cache' = CachePut(session_cache, next_sid, [elements |-> els, ts |-> now])
    /\ next_sid' = next_sid + 1
    /\ start_inflight' = start_inflight - 1
    /\ UNCHANGED <<pc, detVars, elements, snapVars, resVars, somVars, cropVars, planVars,
                   now, stream_log, refVars, verify_env, searchVars, rplanVars>>

\* the upload and image_size of a /plan-stream request: (upload, size_ok)
StreamRequestPool ==
    { <<"image", TRUE>>, <<"none", TRUE>>, <<"empty", TRUE>>, <<"image", FALSE>> }

\* /plan-stream, lines 1368-1398: the take and what the request goes on with;
\* age is that of the popped entry, None when pop found nothing
PlanStreamTake ==
    /\ Len(stream_log) < MaxStreams
    /\ \E sid \in SessionIdPool(next_sid - 1), req \in StreamRequestPool :
          LET cached == IF sid # None /\ CacheHas(session_cache, sid)
                        THEN session_cache[sid] ELSE NoEntry
              served == cached # NoEntry /\ EntryFresh(cached, now)
          IN  /\ session_cache' =
                    IF sid # None THEN CacheAfterTake(session_cache, sid) ELSE session_cache
              /\ stream_log' =
                    Append(stream_log,
                           [session_id |-> sid, upload |-> req[1], size_ok |-> req[2],
                            age |-> IF cached # NoEntry THEN now - cached.ts ELSE None,
                            outcome |-> IF served THEN "cache"
                                        ELSE NoSessionOutcome(req[1], req[2]),
                            prefetched_elements |-> IF served THEN cached.elements ELSE None])
    /\ UNCHANGED <<pc, detVars, elements, snapVars, resVars, somVars, cropVars, planVars,
                   now, next_sid, start_inflight, refVars, verify_env, searchVars, rplanVars>>

NextSession ==
    \/ Tick
    \/ StartBegin
    \/ StartInvalidSize
    \/ StartReject
    \/ StartStore
    \/ PlanStreamTake

SpecSession == InitSession /\ [][NextSession]_vars

-----------------------------------------------------------------------------
(* routers/plan.py: _refine_with_omniparser, for one target of one step.      *)
(* The coarse target and the crop are in units of 1/One, the crop's elements   *)
(* in crop-local units of 1/One, the refined target in units of 1/One^2.       *)

\* a target with the rectangle scaled to 1/One^2, every other field as it is
FineTarget(t) ==
    [x |-> t.x * One, y |-> t.y * One, w |-> t.w * One, h |-> t.h * One,
     confidence |-> t.confidence, label |-> t.label]

\* CropRect(cx, cy, cw, ch) validates
CropRectAccepts(c) ==
    /\ 0 <= c.cx /\ c.cx <= One
    /\ 0 <= c.cy /\ c.cy <= One
    /\ 0 < c.cw /\ c.cw <= One
    /\ 0 < c.ch /\ c.ch <= One

\* found: the crop elements the picked ids name, in the order picked
FoundIds(picked_ids, elems) ==
    { picked_ids[i] : i \in { j \in DOMAIN picked_ids : InElemMap(picked_ids[j], elems) } }

\* mutant: only an inverted box is refused, an empty one is refined
BoxInverted_Strict(lo, hi) == hi < lo

\* full_x2 <= full_x1
BoxInverted(lo, hi) == hi <= lo

\* lines 986-1011 on one axis: <<inverted, origin, extent>> from the crop's (c, cs)
\* and the least low edge and greatest high edge of the found elements
RefineAxis(c, cs, lows, highs) ==
    LET full_1 == c * One + SetMin(lows) * cs
        full_2 == c * One + SetMax(highs) * cs
        r == Max(0, Min(full_1, FineOne))
        ext == Max(full_2 - full_1, (2 * FineOne) \div 100)
    IN  <<BoxInverted(full_1, full_2), r, Min(ext, FineOne - r)>>

\* confidence=result.get("confidence") passes Field(None, ge=0.0, le=1.0), in percent
ConfidenceAccepted(c) == c = None \/ (0 <= c /\ c <= 100)

\* the target appended for `target`: the try block of lines 940-1027 and its except
RefineTarget(target, env, elems) ==
    LET crop == _crop_region(target)
        found == FoundIds(env.result.element_ids, elems)
        ax == RefineAxis(crop.cx, crop.cw,
                         { ElemMapGet(id, elems).bbox_xyxy[1] : id \in found },
                         { ElemMapGet(id, elems).bbox_xyxy[3] : id \in found })
        ay == RefineAxis(crop.cy, crop.ch,
                         { ElemMapGet(id, elems).bbox_xyxy[2] : id \in found },
                         { ElemMapGet(id, elems).bbox_xyxy[4] : id \in found })
        refined == [x |-> ax[2], y |-> ay[2], w |-> ax[3], h |-> ay[3],
                    confidence |-> env.result.confidence, label |-> env.result.label]
    IN  IF env.raised = "crop" \/ ~CropRectAccepts(crop) THEN FineTarget(target)
        ELSE IF env.raised = "detect" THEN FineTarget(target)
        ELSE IF elems = <<>> THEN FineTarget(target)
        ELSE IF env.raised = "refine" THEN FineTarget(target)
        ELSE IF found = {} THEN FineTarget(target)
        ELSE IF ax[1] \/ ay[1] THEN FineTarget(target)
        ELSE IF ~TargetRectAccepts(refined, FineOne) \/ ~ConfidenceAccepted(refined.confidence)
             THEN FineTarget(target)
        ELSE refined

\* coarse targets as _som_plan_to_step_plan hands them over
RefineTargetPool ==
    { [x |-> 800, y |-> 800, w |-> 400, h |-> 400, confidence |-> 10,
       label |-> "fallback - marker not found"],
      [x |-> 440, y |-> 640, w |-> 420, h |-> 320, confidence |-> 80, label |-> NoLabel],
      [x |-> 0, y |-> 0, w |-> 40, h |-> 40, confidence |-> None, label |-> NoLabel],
      [x |-> 1960, y |-> 1000, w |-> 40, h |-> 100, confidence |-> 60, label |-> "Send"] }

\* detector output on a crop, crop-local; the last box is empty
RefineElemPool ==
    { <<90, <<800, 800, 900, 900>>>>,
      <<80, <<200, 200, 1400, 1200>>>>,
      <<60, <<500, 500, 500, 600>>>> }

RefineElementLists ==
    { detect_elements(raw) : raw \in SeqsUpTo(RefineElemPool, MaxCropElems) }

\* what generate_omniparser_refine returns
RefineResults ==
    { [raised |-> FALSE, element_ids |-> ids, confidence |-> c, label |-> "button"] :
        ids \in { <<>>, <<0>>, <<1>>, <<0, 1>>, <<5>>, <<5, 0>> },
        c \in { None, 90, 150 } }

\* which call raised, if any, and the reply of the refine call
RefineEnvs ==
    { [raised |-> r, result |-> NoRefineResult] : r \in { "crop", "detect", "refine" } }
    \cup { [raised |-> "", result |-> res] : res \in RefineResults }

InitRefine ==
    /\ pc = "refine"
    /\ DetIdle
    /\ elements = <<>>
    /\ SnapIdle
    /\ ResIdle
    /\ SomIdle
    /\ CropIdle
    /\ PlanIdle
    /\ SessIdle
    /\ coarse_target \in RefineTargetPool
    /\ refine_env = [raised |-> "", result |-> NoRefineResult]
    /\ refined_target = NoTarget
    /\ VerIdle
    /\ SearchIdle
    /\ RPlanIdle

\* one turn of the inner loop: crop, detect on the crop, ask, map back
Refine ==
    /\ pc = "refine"
    /\ refine_env' \in RefineEnvs
    /\ elements' \in RefineElementLists
    /\ crop_rect' = _crop_region(coarse_target)
    /\ refined_target' = RefineTarget(coarse_target, refine_env', elements')
    /\ pc' = "refined"
    /\ UNCHANGED <<detVars, snapVars, resVars, somVars, target_rect, planVars, sessVars,
                   coarse_target, verify_env, searchVars, rplanVars>>

NextRefine == Refine

SpecRefine == InitRefine /\ [][NextRefine]_vars

-----------------------------------------------------------------------------
(* routers/plan.py: _refine_with_omniparser, the whole plan.  A target is      *)
(* [type, marker_id, rect]; rect holds x, y, w, h, confidence and label, in    *)
(* units of 1/One in the plan given and of 1/One^2 in the plan returned.       *)

\* most steps of a plan given to the refinement
MaxRefSteps == 2

\* the try block of one target ends in 'refined_targets.append(target)'
RefineKeeps(target, env, elems) ==
    LET crop == _crop_region(target)
        found == FoundIds(env.result.element_ids, elems)
        ax == RefineAxis(crop.cx, crop.cw,
                         { ElemMapGet(id, elems).bbox_xyxy[1] : id \in found },
                         { ElemMapGet(id, elems).bbox_xyxy[3] : id \in found })
        ay == RefineAxis(crop.cy, crop.ch,
                         { ElemMapGet(id, elems).bbox_xyxy[2] : id \in found },
                         { ElemMapGet(id, elems).bbox_xyxy[4] : id \in found })
        refined == [x |-> ax[2], y |-> ay[2], w |-> ax[3], h |-> ay[3],
                    confidence |-> env.result.confidence, label |-> env.result.label]
    IN  IF env.raised # "" \/ ~CropRectAccepts(crop) THEN TRUE
        ELSE IF elems = <<>> THEN TRUE
        ELSE IF found = {} THEN TRUE
        ELSE IF ax[1] \/ ay[1] THEN TRUE
        ELSE ~TargetRectAccepts(refined, FineOne) \/ ~ConfidenceAccepted(refined.confidence)

\* the target in the units of the plan returned
FinePlanTarget(t) ==
    IF t.type = "bbox_norm" THEN [t EXCEPT !.rect = FineTarget(t.rect)] ELSE t

\* lines 940-1033: what one turn of the inner loop appends for target t.  A
\* som_marker target has x = None: 'target_rect.x - pad' in _crop_region raises
\* and the except clause appends the target.
RefinePlanTarget(t, env, elems) ==
    IF t.type # "bbox_norm" THEN t
    ELSE IF RefineKeeps(t.rect, env, elems) THEN FinePlanTarget(t)
    ELSE [type |-> "bbox_norm", marker_id |-> None, rect |-> RefineTarget(t.rect, env, elems)]

\* mutant: a target whose refinement raised is left out
RefineOne_DropOnRaise(acc, t, env, elems) ==
    IF env.raised # "" THEN acc ELSE Append(acc, RefinePlanTarget(t, env, elems))

\* one turn of 'for target in step.targets': exactly one append
RefineOne(acc, t, env, elems) == Append(acc, RefinePlanTarget(t, env, elems))

\* targets of the plan given: boxes as _som_plan_to_step_plan builds them, and a marker target
RefPlanTargetPool ==
    { [type |-> "bbox_norm", marker_id |-> None,
       rect |-> [x |-> 440, y |-> 640, w |-> 420, h |-> 320, confidence |-> 80, label |-> NoLabel]],
      [type |-> "bbox_norm", marker_id |-> None,
       rect |-> [x |-> 1960, y |-> 1000, w |-> 40, h |-> 100, confidence |-> 60, label |-> "Send"]],
      [type |-> "som_marker", marker_id |-> 7,
       rect |-> [x |-> None, y |-> None, w |-> None, h |-> None, confidence |-> 50, label |-> "grid"]] }

\* steps: id, instruction, advance.type and safety.risk_level ("" when safety is None)
RefStepPool ==
    { [id |-> "s1", instruction |-> "Click File", advance |-> "click_in_target", safety |-> "",
       targets |-> <<CHOOSE t \in RefPlanTargetPool : t.rect.label = NoLabel>>],
      [id |-> "s2", instruction |-> "Press Send", advance |-> "wait_for_ui_change", safety |-> "high",
       targets |-> <<CHOOSE t \in RefPlanTargetPool : t.rect.label = "Send",
                     CHOOSE t \in RefPlanTargetPool : t.type = "som_marker">>],
      [id |-> "s3", instruction |-> "Type the name", advance |-> "text_entered_or_next", safety |-> "low",
       targets |-> <<CHOOSE t \in RefPlanTargetPool : t.type = "som_marker">>] }

\* plans: with and without app_context ("" is None)
RefPlanPool ==
    { [version |-> "v1", goal |-> g, app_context |-> a, image_size |-> <<1920, 1080>>, steps |-> ss] :
        g \in { "send the file" }, a \in { "", "Mail" },
        ss \in SeqsUpTo(RefStepPool, MaxRefSteps) \ { <<>> } }

InitRefinePlan ==
    /\ pc = "refine_plan"
    /\ DetIdle
    /\ elements = <<>>
    /\ SnapIdle
    /\ ResIdle
    /\ SomIdle
    /\ CropIdle
    /\ PlanIdle
    /\ SessIdle
    /\ RefIdle
    /\ VerIdle
    /\ SearchIdle
    /\ coarse_plan \in RefPlanPool
    /\ target_i = 1
    /\ refined_targets = <<>>
    /\ refined_steps = <<>>
    /\ refined_plan = NoPlan

\* the step of the outer loop under way
RefineStepNow == coarse_plan.steps[Len(refined_steps) + 1]

\* one turn of the inner loop
RefineTargetTurn ==
    /\ pc = "refine_plan"
    /\ Len(refined_steps) < Len(coarse_plan.steps)
    /\ target_i <= Len(RefineStepNow.targets)
    /\ \E env \in RefineEnvs, elems \in RefineElementLists :
          /\ refined_targets' = RefineOne(refined_targets, RefineStepNow.targets[target_i], env, elems)
          /\ refine_env' = env
    /\ target_i' = target_i + 1
    /\ UNCHANGED <<pc, detVars, elements, snapVars, resVars, somVars, cropVars, planVars, sessVars,
                   coarse_target, refined_target, verify_env, searchVars,
                   coarse_plan, refined_steps, refined_plan>>

\* lines 1033-1039: the inner loop is over, the Step is rebuilt and appended
RefineStepDone ==
    /\ pc = "refine_plan"
    /\ Len(refined_steps) < Len(coarse_plan.steps)
    /\ target_i > Len(RefineStepNow.targets)
    /\ refined_steps' = Append(refined_steps,
                               [id |-> RefineStepNow.id,
                                instruction |-> RefineStepNow.instruction,
                                targets |-> refined_targets,
                                advance |-> RefineStepNow.advance,
                                safety |-> RefineStepNow.safety])
    /\ refined_targets' = <<>>
    /\ target_i' = 1
    /\ UNCHANGED <<pc, detVars, elements, snapVars, resVars, somVars, cropVars, planVars, sessVars,
                   refVars, verify_env, searchVars, coarse_plan, refined_plan>>

\* lines 1041-1047: the outer loop is over, the StepPlan is rebuilt and returned
RefineReturn ==
    /\ pc = "refine_plan"
    /\ Len(refined_steps) = Len(coarse_plan.steps)
    /\ refined_plan' = [version |-> coarse_plan.version,
                        goal |-> coarse_plan.goal,
                        app_context |-> coarse_plan.app_context,
                        image_size |-> coarse_plan.image_size,
                        steps |-> refined_steps]
    /\ pc' = "refine_plan_done"
    /\ UNCHANGED <<detVars, elements, snapVars, resVars, somVars, cropVars, planVars, sessVars,
                   refVars, verify_env, searchVars, coarse_plan, target_i, refined_targets, refined_steps>>

NextRefinePlan == RefineTargetTurn \/ RefineStepDone \/ RefineReturn

SpecRefinePlan == InitRefinePlan /\ [][NextRefinePlan]_vars

-----
(* Claims about snap_to_nearest_element (SpecSnap) *)

ElemArea(e) == bbox_xywh(e).w * bbox_xywh(e).h

\* the elements the size filter of the code lets through for candidate g
EligibleFor(g, elems) ==
    { i \in DOMAIN elems :
        ElemArea(elems[i]) * 100 >= 15 * (IF g.w * g.h > 0 THEN g.w * g.h ELSE 400) }

\* the eligible elements whose bbox contains g's centre, bounds included
ContainingFor(g, elems) ==
    { i \in EligibleFor(g, elems) :
        LET e == bbox_xywh(elems[i])
        IN  /\ 2 * e.x <= 2 * g.x + g.w /\ 2 * g.x + g.w <= 2 * (e.x + e.w)
            /\ 2 * e.y <= 2 * g.y + g.h /\ 2 * g.y + g.h <= 2 * (e.y + e.h) }

\* IoU of g and elems[i] above 0.05
IoUOver5(g, elems, i) ==
    LET e == bbox_xywh(elems[i])
        iw == Min(g.x + g.w, e.x + e.w) - Max(g.x, e.x)
        ih == Min(g.y + g.h, e.y + e.h) - Max(g.y, e.y)
    IN  /\ iw > 0
        /\ ih > 0
        /\ iw * ih * 100 > 5 * (g.w * g.h + e.w * e.h - iw * ih)

\* centre of elems[i] within 0.06 of g's centre (0.06 = 120 units, centres doubled)
Within6(g, elems, i) == CenterDist2x4(g, bbox_xywh(elems[i])) <= 240 * 240

NoPassAccepts(g, elems) ==
    /\ ContainingFor(g, elems) = {}
    /\ \A i \in EligibleFor(g, elems) : ~IoUOver5(g, elems, i) /\ ~Within6(g, elems, i)

Unmatched(g) == [x |-> g.x, y |-> g.y, w |-> g.w, h |-> g.h, id |-> None]

\* C4: when no element is accepted by any of the three passes, and in particular when
\* the element list is empty, snap_to_nearest_element returns the candidate exactly as
\* given with matched id None.
C4_UnmatchedReturnsCandidate ==
    pc = "snapped" =>
        /\ NoPassAccepts(gemini, elements) => snap_ret = Unmatched(gemini)
        /\ elements = <<>> => snap_ret = Unmatched(gemini)

\* C4 witness: a non-empty list none of whose elements is accepted, candidate returned
C4_Witness ==
    /\ pc = "snapped"
    /\ Len(elements) >= 2
    /\ EligibleFor(gemini, elements) # {}
    /\ NoPassAccepts(gemini, elements)
    /\ snap_ret = Unmatched(gemini)

\* C5: when some size-eligible element contains the candidate's centre, the result is
\* the bbox and id of a smallest-area such element, whatever the other elements are;
\* E0 = (0.10,0.10,0.05,0.03) with candidate (0.11,0.105,0.04,0.025) gives E0's bbox.
C5_ContainmentPriority ==
    pc = "snapped" =>
        /\ ContainingFor(gemini, elements) # {} =>
              \E i \in ContainingFor(gemini, elements) :
                  /\ \A j \in ContainingFor(gemini, elements) :
                        ElemArea(elements[i]) <= ElemArea(elements[j])
                  /\ snap_ret = [x |-> bbox_xywh(elements[i]).x, y |-> bbox_xywh(elements[i]).y,
                                 w |-> bbox_xywh(elements[i]).w, h |-> bbox_xywh(elements[i]).h,
                                 id |-> elements[i].id]
        /\ (/\ gemini = Rect(220, 210, 80, 50)
            /\ Len(elements) = 1
            /\ elements[1].bbox_xyxy = <<200, 200, 300, 260>>)
           => snap_ret = [x |-> 200, y |-> 200, w |-> 100, h |-> 60, id |-> 0]

\* C5 witness: two containing elements of different area, a third element elsewhere,
\* and the smaller containing one returned
C5_Witness ==
    /\ pc = "snapped"
    /\ Len(elements) = 3
    /\ \E i, j \in ContainingFor(gemini, elements) :
          /\ ElemArea(elements[i]) < ElemArea(elements[j])
          /\ snap_ret.id = elements[i].id
          /\ snap_ret.w * snap_ret.h = ElemArea(elements[i])

-----------------------------------------------------------------------------
(* Claims about detect_elements (SpecDetect) *)

\* IoU of two xyxy boxes above 0.85
IoUOver85(a, b) ==
    LET iw == Min(a[3], b[3]) - Max(a[1], b[1])
        ih == Min(a[4], b[4]) - Max(a[2], b[2])
        union == (a[3] - a[1]) * (a[4] - a[2]) + (b[3] - b[1]) * (b[4] - b[2]) - iw * ih
    IN  iw > 0 /\ ih > 0 /\ iw * ih * 100 > 85 * union

\* index of x in the list s of distinct entries
PosIn(s, x) == CHOOSE i \in DOMAIN s : s[i] = x

KeptSet == { dedup_out[i] : i \in DOMAIN dedup_out }

\* C8: on a list sorted by descending confidence, no two kept boxes have IoU above
\* 0.85, kept boxes keep their input order, and a box is dropped exactly when its IoU
\* with a box kept before it exceeds 0.85; IoU 0.90 at confidences 0.8/0.6 leaves the
\* 0.8 box, IoU 0.50 leaves both.
C8_DedupThreshold ==
    pc # "detect" =>
        /\ \A i, j \in DOMAIN dedup_in : i < j => dedup_in[i][1] >= dedup_in[j][1]
        /\ \A i, j \in DOMAIN dedup_out :
              i < j => ~IoUOver85(dedup_out[i][2], dedup_out[j][2])
        /\ \A i, j \in DOMAIN dedup_out :
              i < j => /\ dedup_out[i] \in { dedup_in[k] : k \in DOMAIN dedup_in }
                       /\ dedup_out[j] \in { dedup_in[k] : k \in DOMAIN dedup_in }
                       /\ PosIn(dedup_in, dedup_out[i]) < PosIn(dedup_in, dedup_out[j])
        /\ KeptSet \subseteq { dedup_in[k] : k \in DOMAIN dedup_in }
        /\ \A k \in DOMAIN dedup_in :
              (dedup_in[k] \notin KeptSet)
              <=> (\E j \in 1..(k - 1) :
                      /\ dedup_in[j] \in KeptSet
                      /\ IoUOver85(dedup_in[k][2], dedup_in[j][2]))
        /\ { raw_elements[i] : i \in DOMAIN raw_elements }
              = { <<80, <<0, 0, 200, 200>>>>, <<60, <<0, 0, 200, 180>>>> }
           => dedup_out = << <<80, <<0, 0, 200, 200>>>> >>
        /\ { raw_elements[i] : i \in DOMAIN raw_elements }
              = { <<80, <<0, 0, 200, 200>>>>, <<60, <<0, 0, 200, 100>>>> }
           => dedup_out = << <<80, <<0, 0, 200, 200>>>>, <<60, <<0, 0, 200, 100>>>> >>

\* C8 witness: three boxes, one dropped over the threshold, one kept at exactly 0.85
C8_Witness ==
    /\ pc = "detected"
    /\ raw_elements = << <<60, <<0, 0, 200, 180>>>>, <<70, <<0, 0, 200, 170>>>>,
                         <<80, <<0, 0, 200, 200>>>> >>
    /\ dedup_out = << <<80, <<0, 0, 200, 200>>>>, <<70, <<0, 0, 200, 170>>>> >>

-----------------------------------------------------------------------------
(* Claims about _resolve_bbox (SpecResolve) *)

\* the Rect invariant of the data model: inside the unit square, at least 0.02 each way
RectInvariant(r) ==
    /\ 0 <= r.x /\ r.x <= 2000
    /\ 0 <= r.y /\ r.y <= 2000
    /\ r.w >= 40
    /\ r.h >= 40
    /\ r.x + r.w <= 2000
    /\ r.y + r.h <= 2000

\* C1: for every (x, y, w, h) handed to the final clamp of _resolve_bbox (the same
\* four lines end /next), the clamped rectangle has 0 <= x,y <= 1, w,h >= 0.02,
\* x + w <= 1 and y + h <= 1.
C1_ClampTotality == pc = "resolved" => RectInvariant(resolved)

\* the element of the list that element_id names
Named == ElemMapGet(step_data.element_id, elements)

NamesElement ==
    /\ step_data.element_id # None
    /\ \E i \in DOMAIN elements : elements[i].id = step_data.element_id

\* centres of the named element and of the converted box at most / more than 0.08 apart
BoxCentreGap == CenterDist2x4(bbox_xywh(Named), Box2dRect(step_data.box_2d))

\* the rectangle as it leaves _resolve_bbox when r reaches the clamp
AfterClamp(r) ==
    LET x == Max(0, Min(r.x, 2000))
        y == Max(0, Min(r.y, 2000))
    IN  Rect(x, y, Max(40, Min(r.w, 2000 - x)), Max(40, Min(r.h, 2000 - y)))

\* C6: element_id names a detected element, box_2d is present and the two centres are
\* at most 0.08 apart (0.08 included): the result is the named element's bbox, clamped,
\* whatever else is in the list.
C6_CrossValidationAgree ==
    (/\ pc = "resolved"
     /\ NamesElement
     /\ Len(step_data.box_2d) = 4
     /\ BoxCentreGap <= 320 * 320)
    => /\ pre_clamp = bbox_xywh(Named)
       /\ resolved = AfterClamp(bbox_xywh(Named))

\* C6 witness: centres exactly 0.08 apart while the box alone would snap elsewhere
C6_Witness ==
    /\ pc = "resolved"
    /\ NamesElement
    /\ Len(step_data.box_2d) = 4
    /\ BoxCentreGap = 320 * 320
    /\ snap_to_nearest_element(Box2dRect(step_data.box_2d), elements).id
          \notin { None, step_data.element_id }
    /\ resolved = bbox_xywh(Named)

\* C7: element_id names a detected element, box_2d is present, the centres are more
\* than 0.08 apart and the box snaps to an element of another id: the result is the
\* snapped element's bbox, clamped, not the named element's.
C7_CrossValidationDisagreeSnap ==
    (/\ pc = "resolved"
     /\ NamesElement
     /\ Len(step_data.box_2d) = 4
     /\ BoxCentreGap > 320 * 320
     /\ snap_to_nearest_element(Box2dRect(step_data.box_2d), elements).id
           \notin { None, step_data.element_id })
    => \E i \in DOMAIN elements :
          /\ elements[i].id
                = snap_to_nearest_element(Box2dRect(step_data.box_2d), elements).id
          /\ elements[i].id # step_data.element_id
          /\ pre_clamp = bbox_xywh(elements[i])
          /\ resolved = AfterClamp(bbox_xywh(elements[i]))

\* C7 witness: the box snaps to another element than the one named, and that one is returned
C7_Witness ==
    /\ pc = "resolved"
    /\ NamesElement
    /\ Len(step_data.box_2d) = 4
    /\ BoxCentreGap > 320 * 320
    /\ \E i \in DOMAIN elements :
          /\ elements[i].id # step_data.element_id
          /\ resolved = bbox_xywh(elements[i])
          /\ resolved # bbox_xywh(Named)

-----------------------------------------------------------------------------
(* Claims about _som_plan_to_step_plan (SpecSom) and _crop_region (SpecCrop) *)

\* centres of the known markers a step names (millionths)
KnownCx(k) ==
    { markers[i].cx : i \in { j \in DOMAIN markers :
                               \E t \in DOMAIN som_plan[k] : som_plan[k][t].marker_id = markers[j].id } }
KnownCy(k) ==
    { markers[i].cy : i \in { j \in DOMAIN markers :
                               \E t \in DOMAIN som_plan[k] : som_plan[k][t].marker_id = markers[j].id } }

\* C9: for a step with at least one known marker, unknown ids are ignored and the
\* target is x = max(0, minCx - 0.08), y = max(0, minCy - 0.08),
\* w = min(maxCx - minCx + 0.16, 1 - x), h = min(maxCy - minCy + 0.16, 1 - y), w and h
\* at least 0.02; markers at (0.30,0.40), (0.35,0.40) give (0.22, 0.32, 0.21, 0.16).
C9_GridMarkerBbox ==
    pc = "som_done" =>
        /\ Len(som_steps) = Len(som_plan)
        /\ \A k \in DOMAIN som_plan :
              KnownCx(k) # {} =>
                  LET x == Max(0, SetMin(KnownCx(k)) - 80000)
                      y == Max(0, SetMin(KnownCy(k)) - 80000)
                      w == Min(SetMax(KnownCx(k)) - SetMin(KnownCx(k)) + 160000, 1000000 - x)
                      h == Min(SetMax(KnownCy(k)) - SetMin(KnownCy(k)) + 160000, 1000000 - y)
                  IN  /\ som_steps[k].x = x
                      /\ som_steps[k].y = y
                      /\ som_steps[k].w = Max(w, 20000)
                      /\ som_steps[k].h = Max(h, 20000)
        /\ \A k \in DOMAIN som_plan :
              (/\ markers = OtherMarkers
               /\ { som_plan[k][t].marker_id : t \in DOMAIN som_plan[k] } \in { {0, 1}, {0, 1, 99} })
              => /\ som_steps[k].x = 220000 /\ som_steps[k].y = 320000
                 /\ som_steps[k].w = 210000 /\ som_steps[k].h = 160000

\* C9 witness: a step naming a known and an unknown grid marker next to one naming
\* the markers at (0.30,0.40) and (0.35,0.40)
C9_Witness ==
    /\ pc = "som_done"
    /\ markers = OtherMarkers
    /\ Len(som_plan) = 2
    /\ { som_plan[1][t].marker_id : t \in DOMAIN som_plan[1] } = {0, 1}
    /\ { som_plan[2][t].marker_id : t \in DOMAIN som_plan[2] } = {23, 99}
    /\ som_steps[1].w = 210000
    /\ som_steps[2].x = 920000
    /\ som_steps[2].w = 80000

\* C10: for every valid target, centre x below 0.15 gives cx = 0, above 0.85 gives
\* cx + cw = 1, centre y below 0.15 gives cy = 0, above 0.85 gives cy + ch = 1;
\* a target with centre x = 0.04 yields cx = 0.
C10_EdgeSnap ==
    pc = "cropped" =>
        /\ 2 * target_rect.x + target_rect.w < 600 => crop_rect.cx = 0
        /\ 2 * target_rect.x + target_rect.w > 3400 => crop_rect.cx + crop_rect.cw = 2000
        /\ 2 * target_rect.y + target_rect.h < 600 => crop_rect.cy = 0
        /\ 2 * target_rect.y + target_rect.h > 3400 => crop_rect.cy + crop_rect.ch = 2000
        /\ 2 * target_rect.x + target_rect.w = 160 => crop_rect.cx = 0

\* C10 witness: a target near the left and bottom edges whose padded crop alone
\* would reach neither
C10_Witness ==
    /\ pc = "cropped"
    /\ target_rect.x > 200
    /\ 2 * target_rect.x + target_rect.w < 600
    /\ 2 * target_rect.y + target_rect.h > 3400
    /\ target_rect.y + target_rect.h + 200 < 2000
    /\ crop_rect.cx = 0
    /\ crop_rect.cy + crop_rect.ch = 2000

-----------------------------------------------------------------------------
(* Claims about POST /plan (SpecPlan) *)

\* the Rect invariant for a rectangle in units of 1/One^2 (0.02 is 2 * FineOne / 100)
RectInvariantFine(r) ==
    /\ 0 <= r.x /\ r.x <= FineOne
    /\ 0 <= r.y /\ r.y <= FineOne
    /\ r.w * 100 >= 2 * FineOne
    /\ r.h * 100 >= 2 * FineOne
    /\ r.x + r.w <= FineOne
    /\ r.y + r.h <= FineOne

\* C2: every rectangle /plan places into a step's target satisfies the Rect
\* invariant (0 <= x,y <= 1, w,h >= 0.02, x + w <= 1, y + h <= 1), also when the
\* verification pass replaced the resolved rectangle by an element-id correction
\* or by a box correction mapped back from the crop.
C2_PlanTargetsSatisfyRectInvariant ==
    \A i \in DOMAIN converted_steps : RectInvariantFine(converted_steps[i])

\* a step of the reasoning result has been taken through resolution
StepHandled == pc \in { "plan_loop", "plan_ok", "plan_error" } /\ verify_ran # <<>>

\* C3: whatever reference a step carries, /plan resolves it to a rectangle that
\* passes TargetRect validation, and a request whose reasoning result has steps
\* ends in an error response only when the detector or the reasoning call failed
\* (stated for the requests whose verification pass left the resolved rectangle
\* in place, so that an error can only come from the reference).
C3_PlanNeverFailsOnReference ==
    (StepHandled /\ verified = Fine(resolved)) =>
        /\ TargetRectAccepts(resolved, One)
        /\ pc = "plan_error" => failure \in { "detector", "reasoning" }

-----------------------------------------------------------------------------
(* Claims about the session cache (SpecSession) *)

\* the /plan-stream requests that were served from the cache
ServedFromCache == { i \in DOMAIN stream_log : stream_log[i].outcome = "cache" }

\* C11: a stored session entry is used by at most one /plan-stream request; once
\* a request has taken a session id the id is absent from the cache, whether or
\* not the entry was served, and every later request with that id runs fresh
\* detection or is rejected.
C11_SingleConsumption ==
    /\ \A i, j \in ServedFromCache : stream_log[i].session_id = stream_log[j].session_id => i = j
    /\ \A i \in DOMAIN stream_log :
          stream_log[i].session_id # None => ~CacheHas(session_cache, stream_log[i].session_id)
    /\ \A i, j \in DOMAIN stream_log :
          (i < j /\ stream_log[i].session_id # None
                 /\ stream_log[i].session_id = stream_log[j].session_id)
              => stream_log[j].outcome \in { "fresh", "422" }

\* a second request names a session id whose entry the first was served, while
\* another /start is in flight
C11_Witness ==
    /\ Len(stream_log) = 2
    /\ stream_log[1].session_id = stream_log[2].session_id
    /\ stream_log[1].outcome = "cache"
    /\ stream_log[2].outcome = "fresh"
    /\ start_inflight > 0

\* C12: a /plan-stream request whose session id names an entry stored 120 seconds
\* or more earlier uses nothing of that entry, read before or not: it ends as a
\* request without session does, in fresh detection on the uploaded screenshot
\* or in a 422.
C12_SessionTTL ==
    \A i \in DOMAIN stream_log :
        (stream_log[i].age # None /\ stream_log[i].age >= SESSION_TTL) =>
            /\ stream_log[i].outcome # "cache"
            /\ stream_log[i].prefetched_elements = None
            /\ stream_log[i].outcome = NoSessionOutcome(stream_log[i].upload, stream_log[i].size_ok)
            /\ stream_log[i].upload = "none" => stream_log[i].outcome = "422"
            /\ (stream_log[i].upload = "image" /\ stream_log[i].size_ok)
                  => stream_log[i].outcome = "fresh"

\* an entry of age exactly 120 that no request had read is refused, one with a
\* screenshot and one without
C12_Witness ==
    /\ Len(stream_log) = 2
    /\ stream_log[1].age = SESSION_TTL /\ stream_log[2].age = SESSION_TTL
    /\ stream_log[1].session_id # stream_log[2].session_id
    /\ stream_log[1].outcome = "fresh"
    /\ stream_log[2].outcome = "422" /\ stream_log[2].upload = "none"

-----------------------------------------------------------------------------
(* Claims about unresolvable references (SpecFallback) *)

\* the screen-centre default (0.4, 0.4, 0.2, 0.2) in units of 1/u
ScreenCentre(u) == Rect((4 * u) \div 10, (4 * u) \div 10, (2 * u) \div 10, (2 * u) \div 10)

\* the snap of the step's box, as a rectangle
SnapOfBox ==
    LET snap == snap_to_nearest_element(Box2dRect(step_data.box_2d), elements)
    IN  Rect(snap.x, snap.y, snap.w, snap.h)

\* no marker id of step k of the SoM plan is in the marker list
AllMarkersUnknown(k) ==
    \A t \in DOMAIN som_plan[k] :
        \A j \in DOMAIN markers : markers[j].id # som_plan[k][t].marker_id

\* C13: an unresolvable reference yields the screen-centre default and no error:
\* _resolve_bbox returns (0.4, 0.4, 0.2, 0.2) when element_id names no detected
\* element and there is no four-value box_2d; _som_plan_to_step_plan gives a step
\* whose marker ids are all unknown the target (0.4, 0.4, 0.2, 0.2) with confidence
\* 0.1; and when element_id names no detected element but a four-value box_2d is
\* there, _resolve_bbox takes the snap of the box (and returns it through the clamp).
C13_UnresolvableDefault ==
    /\ (pc = "resolved" /\ ~NamesElement /\ Len(step_data.box_2d) # 4)
          => resolved = ScreenCentre(2000)
    /\ (pc = "resolved" /\ ~NamesElement /\ Len(step_data.box_2d) = 4)
          => /\ pre_clamp = SnapOfBox
             /\ resolved = AfterClamp(SnapOfBox)
    /\ pc = "som_done" =>
          /\ Len(som_steps) = Len(som_plan)
          /\ \A k \in DOMAIN som_plan :
                AllMarkersUnknown(k) =>
                    /\ Rect(som_steps[k].x, som_steps[k].y, som_steps[k].w, som_steps[k].h)
                          = ScreenCentre(1000000)
                    /\ som_steps[k].confidence = <<10, 1>>

\* an element_id that names nothing, with a box of two values, among detected elements
C13_Witness ==
    /\ pc = "resolved"
    /\ step_data.element_id = 7
    /\ Len(step_data.box_2d) = 2
    /\ Len(elements) >= 2
    /\ resolved = ScreenCentre(2000)

-----------------------------------------------------------------------------
(* Claims about _refine_with_omniparser (SpecRefine) *)

\* the crop elements the refine call picked
PickedElements ==
    { j \in DOMAIN elements :
        \E i \in DOMAIN refine_env.result.element_ids :
            refine_env.result.element_ids[i] = elements[j].id }

\* the box spanning the picked elements, mapped back to the full image, is
\* inverted or empty on the axis whose crop origin and size are c and cs
MappedBackEmpty(c, cs, lo, hi) ==
    \E j \in PickedElements :
        /\ \A k \in PickedElements :
              /\ elements[j].bbox_xyxy[lo] <= elements[k].bbox_xyxy[lo]
        /\ \E m \in PickedElements :
              /\ \A k \in PickedElements : elements[k].bbox_xyxy[hi] <= elements[m].bbox_xyxy[hi]
              /\ c * 2000 + elements[m].bbox_xyxy[hi] * cs
                    <= c * 2000 + elements[j].bbox_xyxy[lo] * cs

\* a step of the refinement raised: one of the calls, or a schema constructor
RefinementRaised ==
    \/ refine_env.raised # ""
    \/ crop_rect.cw <= 0 \/ crop_rect.ch <= 0
    \/ (refine_env.result.confidence # None /\ refine_env.result.confidence > 100)

\* C14: when the crop has no detected elements, the refine call picks no id of a
\* crop element, the mapped-back box is inverted or empty, or a step of the
\* refinement raises, the target returned is the coarse target, every field as it was.
C14_RefineFailSoft ==
    (/\ pc = "refined"
     /\ \/ elements = <<>>
        \/ PickedElements = {}
        \/ MappedBackEmpty(crop_rect.cx, crop_rect.cw, 1, 3)
        \/ MappedBackEmpty(crop_rect.cy, crop_rect.ch, 2, 4)
        \/ RefinementRaised)
    => refined_target = FineTarget(coarse_target)

\* the only element picked is an empty box: nothing raised, the coarse target is kept
C14_Witness ==
    /\ pc = "refined"
    /\ refine_env.raised = ""
    /\ Len(elements) = 2
    /\ PickedElements # {}
    /\ \A j \in PickedElements : elements[j].bbox_xyxy[1] = elements[j].bbox_xyxy[3]
    /\ refine_env.result.confidence = 90
    /\ coarse_target.label = "Send"
    /\ refined_target = FineTarget(coarse_target)

-----------------------------------------------------------------------------
\* C15

\* the ids detect_elements gave the elements of the crop
CropIds == { elements[i].id : i \in 1..Len(elements) }

\* the verdict says incorrect but offers no usable correction
NoUsableCorrection ==
    /\ verify_env.verdict.has_correct
    /\ ~verify_env.verdict.correct
    /\ verify_env.verdict.correct_element_id \notin CropIds
    /\ Len(verify_env.verdict.box_2d) # 4

\* C15: verification leaves the resolved rectangle unchanged when the crop has
\* no detected elements, when the verification call raises, when the verdict
\* says correct or carries no "correct" field, when it says incorrect without
\* an element id of the crop and without a four-value box, and when
\* _verify_and_correct_step itself raises
C15_VerifyKeepsRectangle ==
    (/\ pc = "verified"
     /\ \/ verify_env.detect_raised
        \/ elements = <<>>
        \/ verify_env.verdict.raised
        \/ verify_env.verdict.has_correct /\ verify_env.verdict.correct
        \/ ~verify_env.verdict.has_correct
        \/ NoUsableCorrection)
    => verified = Fine(resolved)

\* an incorrect verdict naming an id the crop does not have, with an empty box
C15_Witness ==
    /\ pc = "verified"
    /\ ~verify_env.detect_raised
    /\ elements # <<>>
    /\ NoUsableCorrection
    /\ verify_env.verdict.correct_element_id = 5
    /\ verified = Fine(resolved)

-----------------------------------------------------------------------------
\* C16

\* the last call was clear_search_context
Cleared == search_call.op = "clear_search_context"

\* C16: clear_search_context(goal) removes exactly the stored context of that
\* goal, for every goal string, and leaves every other goal's context
\* unchanged; clear_search_context() empties the store; afterwards
\* get_stored_search_context of a removed goal returns the empty string
C16_ClearFrame ==
    Cleared =>
        /\ search_call.given =>
              /\ DOMAIN search_store = DOMAIN search_before \ { search_call.goal }
              /\ \A g \in DOMAIN search_store : search_store[g] = search_before[g]
        /\ ~search_call.given => search_store = EmptyStore
        /\ \A g \in DOMAIN search_before \ DOMAIN search_store :
              get_stored_search_context(search_store, g) = ""

-----------------------------------------------------------------------------
\* C17

\* 0.02 squared, in units of 1/One^2
EpsSquared == ((2 * One) \div 100) * ((2 * One) \div 100)

\* snap_to_nearest_element returned an element
Snapped == pc = "snapped" /\ snap_ret.id # None

-----------------------------------------------------------------------------
\* C18

\* intersection area of g and elems[i], 0 when they do not overlap
InterArea(g, elems, i) ==
    LET e == bbox_xywh(elems[i])
        iw == Min(g.x + g.w, e.x + e.w) - Max(g.x, e.x)
        ih == Min(g.y + g.h, e.y + e.h) - Max(g.y, e.y)
    IN  IF iw > 0 /\ ih > 0 THEN iw * ih ELSE 0

UnionArea(g, elems, i) == g.w * g.h + ElemArea(elems[i]) - InterArea(g, elems, i)

\* IoU of g and elems[i] at least that of g and elems[j]
IoUAtLeast(g, elems, i, j) ==
    \/ InterArea(g, elems, j) = 0
    \/ /\ InterArea(g, elems, i) > 0
       /\ InterArea(g, elems, i) * UnionArea(g, elems, j)
              >= InterArea(g, elems, j) * UnionArea(g, elems, i)

\* the eligible elements whose IoU with g is above 0.05
OverFive(g, elems) == { i \in EligibleFor(g, elems) : IoUOver5(g, elems, i) }

\* the containment pass found nothing in a non-empty list
PastContainment ==
    pc = "snapped" /\ elements # <<>> /\ ContainingFor(gemini, elements) = {}

\* C18: when no size-eligible element contains the candidate's centre, the
\* size-eligible element with the greatest IoU is returned exactly when that
\* IoU is strictly above 0.05; at 0.05 or less the IoU pass returns nothing
\* and only the distance pass can return an element
C18_IoUPass ==
    PastContainment =>
        /\ OverFive(gemini, elements) # {} =>
              \E i \in OverFive(gemini, elements) :
                  /\ \A j \in EligibleFor(gemini, elements) :
                        IoUAtLeast(gemini, elements, i, j)
                  /\ snap_ret = SnapTo(elements[i])
        /\ OverFive(gemini, elements) = {} =>
              \/ snap_ret = Unmatched(gemini)
              \/ \E i \in EligibleFor(gemini, elements) :
                    /\ Within6(gemini, elements, i)
                    /\ snap_ret = SnapTo(elements[i])

\* two eligible elements overlap the candidate above 0.05, neither contains
\* its centre, and the later one, of greater IoU, is returned
C18_Witness ==
    /\ PastContainment
    /\ \E i, j \in OverFive(gemini, elements) :
          /\ j < i
          /\ ~IoUAtLeast(gemini, elements, j, i)
          /\ snap_ret = SnapTo(elements[i])

\* an eligible element with IoU exactly 0.05 and a centre farther than 0.06
C18_AtLimit ==
    /\ PastContainment
    /\ OverFive(gemini, elements) = {}
    /\ \E i \in EligibleFor(gemini, elements) :
          InterArea(gemini, elements, i) * 100 = 5 * UnionArea(gemini, elements, i)
    /\ snap_ret = Unmatched(gemini)

-----------------------------------------------------------------------------
\* C19

\* the eligible elements whose centre is within 0.06 of g's
NearFor(g, elems) == { i \in EligibleFor(g, elems) : Within6(g, elems, i) }

\* neither the containment pass nor the IoU pass accepted an element
PastIoU ==
    /\ pc = "snapped"
    /\ ContainingFor(gemini, elements) = {}
    /\ OverFive(gemini, elements) = {}

\* C19: when neither the containment pass nor the IoU pass accepts an element,
\* the size-eligible element with the nearest centre is returned exactly when
\* its distance is at most 0.06, 0.06 included; when the nearest eligible
\* centre is farther, or no element is eligible, the candidate is returned
\* unmatched
C19_DistancePass ==
    PastIoU =>
        /\ NearFor(gemini, elements) # {} =>
              \E i \in NearFor(gemini, elements) :
                  /\ \A j \in EligibleFor(gemini, elements) :
                        CenterDist2x4(gemini, bbox_xywh(elements[i]))
                            <= CenterDist2x4(gemini, bbox_xywh(elements[j]))
                  /\ snap_ret = SnapTo(elements[i])
        /\ NearFor(gemini, elements) = {} => snap_ret = Unmatched(gemini)

\* the nearest eligible centre is exactly 0.06 away, another eligible element
\* is farther, and the nearest is returned
C19_Witness ==
    /\ PastIoU
    /\ \E i, j \in EligibleFor(gemini, elements) :
          /\ CenterDist2x4(gemini, bbox_xywh(elements[i])) = 240 * 240
          /\ CenterDist2x4(gemini, bbox_xywh(elements[j])) > 240 * 240
          /\ snap_ret = SnapTo(elements[i])

-----------------------------------------------------------------------------
\* C20

\* what snapping the step's box on its own returns
BoxSnap == snap_to_nearest_element(Box2dRect(step_data.box_2d), elements)

\* element_id names an element, the box is present, the centres disagree
Disagree ==
    /\ pc = "resolved"
    /\ NamesElement
    /\ Len(step_data.box_2d) = 4
    /\ BoxCentreGap > 320 * 320

\* C20: element_id names a detected element, box_2d is present and the centres
\* are more than 0.08 apart: the result is the named element's bbox, clamped,
\* both when the box snaps to that same element and when it snaps to nothing
C20_CrossValidationDisagreeKeep ==
    (Disagree /\ BoxSnap.id \in { step_data.element_id, None })
    => /\ pre_clamp = bbox_xywh(Named)
       /\ resolved = AfterClamp(bbox_xywh(Named))

\* the box snaps to the named element from more than 0.08 away, with other
\* elements in the list
C20_Witness ==
    /\ Disagree
    /\ Len(elements) >= 2
    /\ BoxSnap.id = step_data.element_id
    /\ resolved = bbox_xywh(Named)

\* the box snaps to nothing although other elements are in the list, and the
\* named element's bbox is the result, not the box
C20_NoSnap ==
    /\ Disagree
    /\ Len(elements) >= 2
    /\ BoxSnap.id = None
    /\ resolved = bbox_xywh(Named)
    /\ resolved # Box2dRect(step_data.box_2d)

-----------------------------------------------------------------------------
\* C21

\* the ids of the element list
IdsOf(elems) == { elems[i].id : i \in DOMAIN elems }

\* ids are exactly 0..N-1, none repeated
DenseIds(elems) ==
    /\ IdsOf(elems) = 0..(Len(elems) - 1)
    /\ \A i, j \in DOMAIN elems : elems[i].id = elems[j].id => i = j

\* C21: detect_elements returns N elements with ids exactly 0..N-1, given in
\* descending-confidence order of the kept boxes; after the caller's sort by
\* (top, left) and renumbering the ids are again exactly 0..N-1 without
\* repeats, so the id map has N entries and an id names at most one element
C21_DenseUniqueIds ==
    /\ pc = "detected" =>
          /\ Len(elements) = Len(dedup_out)
          /\ DenseIds(elements)
          /\ \A i \in DOMAIN elements :
                /\ elements[i].id = i - 1
                /\ elements[i].bbox_xyxy = dedup_out[i][2]
          /\ \A i, j \in DOMAIN elements :
                elements[i].id < elements[j].id => elements[i].conf >= elements[j].conf
    /\ pc = "sorted" =>
          /\ Len(elements) = Len(dedup_out)
          /\ DenseIds(elements)
          /\ Cardinality(IdsOf(elements)) = Len(elements)
          /\ \A id \in IdsOf(elements) :
                Cardinality({ i \in DOMAIN elements : elements[i].id = id }) = 1

\* a box was dropped as a duplicate and the caller's sort reordered the rest
C21_Witness ==
    /\ pc = "sorted"
    /\ Len(elements) = 2
    /\ Len(raw_elements) = 3
    /\ elements[1].bbox_xyxy = dedup_out[2][2]
    /\ elements[1].id = 0
    /\ elements[2].id = 1

-----------------------------------------------------------------------------
\* C22

\* a crop rectangle inside the image with positive size
CropInside(c) ==
    /\ c.cx >= 0
    /\ c.cy >= 0
    /\ c.cw > 0
    /\ c.ch > 0
    /\ c.cx + c.cw <= One
    /\ c.cy + c.ch <= One

\* the crop of _verify_and_correct_step around the resolved rectangle r
VerifyCrop(r) ==
    [cx |-> VerifyCropAxis(r.x, r.w)[1], cy |-> VerifyCropAxis(r.y, r.h)[1],
     cw |-> VerifyCropAxis(r.x, r.w)[2], ch |-> VerifyCropAxis(r.y, r.h)[2]]

\* C22: every crop rectangle computed, in _crop_region, in the crop of
\* _verify_and_correct_step and in the Pass-2 crop of /next, has cx >= 0,
\* cy >= 0, cw > 0, ch > 0, cx + cw <= 1 and cy + ch <= 1, for every target or
\* Pass-1 box_2d, values outside 0..1000 and max below min included
C22_CropInsideImage ==
    /\ pc \in { "cropped", "pass2_cropped" } => CropInside(crop_rect)
    /\ pc = "verified" => CropInside(VerifyCrop(resolved))

-----------------------------------------------------------------------------
\* C23

\* C23: the crop returned has cw and ch of at least the minimum crop size, 0.20
\* in _crop_region and 0.15 in the verification crop, for every valid target,
\* targets next to a screen edge included
C23_MinimumCropSize ==
    /\ pc = "cropped" =>
          /\ crop_rect.cw >= Frac(20, 100)
          /\ crop_rect.ch >= Frac(20, 100)
    /\ pc = "verified" =>
          /\ VerifyCrop(resolved).cw >= Frac(15, 100)
          /\ VerifyCrop(resolved).ch >= Frac(15, 100)

-----------------------------------------------------------------------------
\* C24

\* C24: in every plan produced from a reasoning result, through /plan or through
\* /plan-stream, the first step and every step whose confidence is below 0.6
\* (no confidence counts as 0.5) go through the verification pass before their
\* target is emitted, and no other step does
C24_VerificationPolicy ==
    \A i \in DOMAIN verify_ran :
        verify_ran[i] <=> (i = 1 \/ StepConfidence(plan_steps[i]) < 60)

-----------------------------------------------------------------------------
\* C25

\* verify_element answered "incorrect" on a crop with elements
VerdictIncorrect ==
    /\ pc = "verified"
    /\ ~verify_env.detect_raised
    /\ elements # <<>>
    /\ ~verify_env.verdict.raised
    /\ verify_env.verdict.has_correct
    /\ ~verify_env.verdict.correct

\* (cx + l.x*cw, cy + l.y*ch, l.w*cw, l.h*ch) for the crop around the resolved rectangle
FullOf(l) ==
    LET c == VerifyCrop(resolved)
    IN  Rect(c.cx * One + l.x * c.cw, c.cy * One + l.y * c.ch, l.w * c.cw, l.h * c.ch)

\* C25: on an incorrect verdict naming an element id of the crop the result is
\* (cx + e.x*cw, cy + e.y*ch, e.w*cw, e.h*ch) for that element, whatever box the
\* verdict carries; with no such id but a four-value box, the box over 1000 is
\* snapped against the crop's elements and the snap result mapped back the
\* same way
C25_VerifyCorrection ==
    VerdictIncorrect =>
        /\ verify_env.verdict.correct_element_id \in CropIds =>
              \E i \in DOMAIN elements :
                  /\ elements[i].id = verify_env.verdict.correct_element_id
                  /\ verified = FullOf(bbox_xywh(elements[i]))
        /\ (/\ verify_env.verdict.correct_element_id \notin CropIds
            /\ Len(verify_env.verdict.box_2d) = 4) =>
              verified =
                  FullOf(snap_to_nearest_element(
                             [x |-> 2 * verify_env.verdict.box_2d[2],
                              y |-> 2 * verify_env.verdict.box_2d[1],
                              w |-> 2 * (verify_env.verdict.box_2d[4] - verify_env.verdict.box_2d[2]),
                              h |-> 2 * (verify_env.verdict.box_2d[3] - verify_env.verdict.box_2d[1])],
                             elements))

\* the verdict names the second element of the crop and carries a box that
\* would snap elsewhere; the element's rectangle is returned
C25_Witness ==
    /\ VerdictIncorrect
    /\ Len(elements) = 2
    /\ verify_env.verdict.correct_element_id = 1
    /\ Len(verify_env.verdict.box_2d) = 4
    /\ verified = FullOf(bbox_xywh(elements[2]))
    /\ verified # FullOf(snap_to_nearest_element(Box2dRect(verify_env.verdict.box_2d), elements))
    /\ verified # Fine(resolved)

\* no id of the crop, a box that snaps to an element of the crop
C25_BoxCase ==
    /\ VerdictIncorrect
    /\ verify_env.verdict.correct_element_id \notin CropIds
    /\ Len(verify_env.verdict.box_2d) = 4
    /\ snap_to_nearest_element(Box2dRect(verify_env.verdict.box_2d), elements).id # None
    /\ verified # Fine(resolved)

-----------------------------------------------------------------------------
\* C26

\* a /start request has just run its first lines
StartBegan == start_inflight' = start_inflight + 1

\* the session ids this step removed from the cache
RemovedByStep == DOMAIN session_cache \ DOMAIN session_cache'

\* this step is a /plan-stream request that took sid
TookSid(sid) ==
    /\ Len(stream_log') = Len(stream_log) + 1
    /\ stream_log'[Len(stream_log')].session_id = sid

\* right after the prune of a /start no entry is older than 120 seconds, and
\* the entries of age at most 120 are all there, unchanged
PruneExact ==
    StartBegan =>
        /\ \A sid \in DOMAIN session_cache' : now - session_cache'[sid].ts <= 120
        /\ \A sid \in DOMAIN session_cache :
              now - session_cache[sid].ts <= 120 =>
                  /\ sid \in DOMAIN session_cache'
                  /\ session_cache'[sid] = session_cache[sid]

\* an entry leaves the cache only by a take of its id or, older than 120
\* seconds, by the prune of a /start
PruneOnlyInStart ==
    \A sid \in RemovedByStep :
        \/ TookSid(sid)
        \/ /\ now - session_cache[sid].ts > 120
           /\ ~(now - session_cache[sid].ts < 120)
           /\ stream_log' = stream_log
           /\ now' = now
           /\ next_sid' = next_sid

\* C26: right after _prune_sessions, which runs at the start of every /start
\* and nowhere else, the cache holds no entry older than 120 seconds and every
\* entry of age at most 120 is still present and unchanged; an unread entry is
\* removed by the first /start after its age exceeds 120, and prune removes no
\* entry a take would still serve
C26_PruneBoundary == [][PruneExact /\ PruneOnlyInStart]_vars

\* an entry no request ever named is gone after a /start that began at age 180
C26_Witness ==
    /\ now = 180
    /\ next_sid = 2
    /\ stream_log = <<>>
    /\ start_inflight = 1
    /\ DOMAIN session_cache = {}

-----------------------------------------------------------------------------
\* C27

\* the rectangle of a snap result
RetRect(r) == Rect(r.x, r.y, r.w, r.h)

\* the result is the bbox of one element of the list together with its id
IsElementResult == \E i \in DOMAIN elements : snap_ret = SnapTo(elements[i])

\* the result is the candidate with id None
IsCandidateResult == snap_ret.id = None /\ RetRect(snap_ret) = gemini

\* C27 as stated: the result is an element's bbox with its id or the candidate
\* with None, and the id is None exactly when the rectangle is the candidate's
C27_SnapResultShapeIff ==
    pc = "snapped" =>
        /\ IsElementResult \/ IsCandidateResult
        /\ snap_ret.id = None <=> RetRect(snap_ret) = gemini

\* C27 amended: the result is an element's bbox with its id or the candidate
\* with None; an id of None comes only with the candidate's rectangle, and an
\* id that is not None comes with the candidate's rectangle only when the
\* candidate is that element's bbox
C27_SnapResultShape ==
    pc = "snapped" =>
        /\ IsElementResult \/ IsCandidateResult
        /\ snap_ret.id = None => RetRect(snap_ret) = gemini
        /\ (snap_ret.id # None /\ RetRect(snap_ret) = gemini) =>
              \E i \in DOMAIN elements :
                  /\ elements[i].id = snap_ret.id
                  /\ bbox_xywh(elements[i]) = gemini

\* a candidate equal to the bbox of one of several elements came back as that
\* element, id included
C27_Witness ==
    /\ pc = "snapped"
    /\ snap_ret.id # None
    /\ RetRect(snap_ret) = gemini
    /\ Len(elements) >= 2

\* a candidate came back unchanged with id None from a list that is not empty
C27_Unmatched ==
    /\ pc = "snapped"
    /\ elements # <<>>
    /\ IsCandidateResult

-----------------------------------------------------------------------------
\* C28

\* the bboxes of the detected elements
ElementBoxes == { bbox_xywh(elements[i]) : i \in DOMAIN elements }

\* C28: whenever element_id names an element of the list, the rectangle that
\* reaches the clamp of _resolve_bbox is the bbox of a detected element, the
\* named one or the one the box snapped to, whatever box_2d contains; the
\* converted box and the screen-centre default are not what is returned
C28_NamedGivesElementBox ==
    (pc = "resolved" /\ NamesElement) =>
        /\ pre_clamp \in ElementBoxes
        /\ \/ pre_clamp = bbox_xywh(Named)
           \/ /\ Len(step_data.box_2d) = 4
              /\ BoxSnap.id # None
              /\ pre_clamp = RetRect(BoxSnap)
        /\ pre_clamp = ScreenCentre(One) => ScreenCentre(One) \in ElementBoxes
        /\ (Len(step_data.box_2d) = 4 /\ pre_clamp = Box2dRect(step_data.box_2d)) =>
              Box2dRect(step_data.box_2d) \in ElementBoxes

\* a named element with a box far from it that snaps to nothing: the named
\* element's bbox reaches the clamp, not the box
C28_Witness ==
    /\ Disagree
    /\ BoxSnap.id = None
    /\ pre_clamp = bbox_xywh(Named)
    /\ pre_clamp # Box2dRect(step_data.box_2d)
    /\ Len(elements) >= 2

\* a named element with a box that snaps to another element: that element's
\* bbox reaches the clamp
C28_OtherElement ==
    /\ Disagree
    /\ BoxSnap.id # None
    /\ BoxSnap.id # step_data.element_id
    /\ pre_clamp = RetRect(BoxSnap)
    /\ pre_clamp # bbox_xywh(Named)

-----------------------------------------------------------------------------
\* C29

\* C29: for every valid target the crop of _crop_region contains the whole
\* target: cx <= x, cy <= y, x + w <= cx + cw and y + h <= cy + ch, with or
\* without edge snapping
C29_CropContainsTarget ==
    (pc = "cropped" /\ TargetRectValid(target_rect)) =>
        /\ crop_rect.cx <= target_rect.x
        /\ crop_rect.cy <= target_rect.y
        /\ target_rect.x + target_rect.w <= crop_rect.cx + crop_rect.cw
        /\ target_rect.y + target_rect.h <= crop_rect.cy + crop_rect.ch

\* a target snapped to the left edge on x and not snapped at all on y, away
\* from every edge, strictly inside its crop
C29_Witness ==
    /\ pc = "cropped"
    /\ target_rect.x > 0
    /\ SnapsLow(2 * target_rect.x + target_rect.w)
    /\ ~SnapsLow(2 * target_rect.y + target_rect.h)
    /\ ~SnapsHigh(2 * target_rect.y + target_rect.h)
    /\ crop_rect.cx = 0
    /\ crop_rect.cy = target_rect.y - OMNI_REFINE_PADDING
    /\ crop_rect.cy > 0
    /\ target_rect.x + target_rect.w < crop_rect.cx + crop_rect.cw
    /\ target_rect.y + target_rect.h < crop_rect.cy + crop_rect.ch

-----------------------------------------------------------------------------
\* C30

\* a refined target: a bbox_norm rectangle the schema accepts
IsRefinedTarget(t) ==
    /\ t.type = "bbox_norm"
    /\ t.marker_id = None
    /\ TargetRectAccepts(t.rect, FineOne)
    /\ ConfidenceAccepted(t.rect.confidence)

\* C30: the plan _refine_with_omniparser returns has the version, goal, app
\* context and image size of the plan it was given and as many steps in the
\* same order; every step keeps its id, instruction, advance, safety and number
\* of targets, whatever detection and the refine call returned or raised; every
\* target is the target given, unchanged, or a refined bbox_norm rectangle
C30_RefineFrame ==
    pc = "refine_plan_done" =>
        /\ refined_plan.version = coarse_plan.version
        /\ refined_plan.goal = coarse_plan.goal
        /\ refined_plan.app_context = coarse_plan.app_context
        /\ refined_plan.image_size = coarse_plan.image_size
        /\ Len(refined_plan.steps) = Len(coarse_plan.steps)
        /\ \A k \in DOMAIN coarse_plan.steps :
              LET in == coarse_plan.steps[k]
                  out == refined_plan.steps[k]
              IN  /\ out.id = in.id
                  /\ out.instruction = in.instruction
                  /\ out.advance = in.advance
                  /\ out.safety = in.safety
                  /\ Len(out.targets) = Len(in.targets)
                  /\ \A j \in DOMAIN in.targets :
                        \/ out.targets[j] = FinePlanTarget(in.targets[j])
                        \/ IsRefinedTarget(out.targets[j])

\* a plan of two steps came back with one target refined, one box kept and the
\* marker target kept
C30_Witness ==
    /\ pc = "refine_plan_done"
    /\ Len(coarse_plan.steps) = 2
    /\ coarse_plan.steps[1].id = "s2"
    /\ coarse_plan.steps[2].id = "s1"
    /\ refined_plan.steps[1].targets[1] = FinePlanTarget(coarse_plan.steps[1].targets[1])
    /\ refined_plan.steps[1].targets[2] = coarse_plan.steps[1].targets[2]
    /\ refined_plan.steps[2].targets[1] # FinePlanTarget(coarse_plan.steps[2].targets[1])
    /\ refined_plan.steps[2].targets[1].rect.label = "button"

====
